---- MODULE Spec2Model ----
(***************************************************************************)
(* A model of the sta-playground GitHub actions:                           *)
(*   - the bulk preview/publish job poller (sta-sp-preview.js, run and     *)
(*     pollJob with the module-level jobStatusPoll, jobStatusFailures and  *)
(*     previewReport);                                                     *)
(*   - the SharePoint file uploader (sta-sharepoint-upload.js, uploadFiles,*)
(*     uploadFile and graphFetch);                                         *)
(*   - the curl upload loop of the shell variant (upload-to-sharepoint.sh).*)
(* One step of the model is one task of the JavaScript event loop: a       *)
(* handler together with the promise continuations it makes runnable.      *)
(***************************************************************************)
EXTENDS Integers, Sequences, FiniteSets, TLC

\* ------------------------------------------------------------- bounds ----
\* GETs of one job that may be awaiting their response at the same time.
MaxInflight == 2
\* Cap on the module-level failure counter (it is never reset by the code).
MaxFailures == 8
\* Largest progress counter a job-details response carries.
MaxCount == 1
\* Longest list of source files handed to the uploader.
MaxFiles == 3
MaxFolders == 2
MaxDrives == 2
MaxResults == 2

\* ---------------------------------------------------- program constants --
\* `let jobStatusPoll;` : the value of a variable that holds no timer.
Undefined == 0
\* A progress counter missing from the response (destructuring default).
Absent == -1
\* `if (jobStatusFailures > 6)` and "after 6 attempts".
JobStatusFailureLimit == 6

Sessions == {1, 2}
Counter == {Absent} \cup (0 .. MaxCount)

VARIABLES
    \* ---- sta-sp-preview.js (bulk) ----
    callers,            \* the run() calls the host makes (1: module load, 2: a later call)
    pc,                 \* per call of run(): "idle", "submitting", "awaiting", "returned"
    jobStatusPoll,      \* module level: the interval handle, or Undefined
    jobStatusFailures,  \* module level: failed poll calls so far
    previewReport,      \* module level: [previews, failures]
    timers,             \* interval timers active in the event loop (handles)
    promise,            \* per call: the promise run() awaits
    inflight,           \* per call: pollJob invocations awaiting fetch()/json()
    outputs,            \* per call: what core.setOutput was given
    \* history of the poller, for stating properties
    lastPoll,           \* per call: outcome of the poll call that completed last
    consec,             \* per call: poll calls failed in a row, up to now
    ownFailures,        \* per call: failed poll calls of this call of run()
    abortConsec,        \* per call: <<consec>> at the moment reject() settled the promise
    stoppedResp,        \* per call: <<response>> of the first poll that reported stopped
    \* ---- sta-sharepoint-upload.js ----
    sourceFiles,        \* the input sequence of uploadFiles
    upc,                \* "upload", "sleep", "done"
    idx,                \* position of the for-of loop in sourceFiles
    uploadReport,       \* [uploads, failures, failedList, failedFolderCreations]
    putLog,             \* the PUT requests issued: <<[file, status]>>
    sleeps,             \* calls of sleep(delay) that completed
    \* ---- sta-sharepoint-upload.js: run, the tree and the folders ----
    tree,               \* the local tree under zip_dir: a set of [path, kind]
    sourceFolders,      \* input of createFoldersIfNecessary: the split paths
    remote,             \* the drive: folders as [parent, name, id]
    folderMap,          \* the Map of createFoldersIfNecessary: path -> id
    fIdx,               \* the outer loop: position in sourceFolders
    segIdx,             \* the inner loop: position in the segments
    parentId,           \* the id the next segment is created in
    postLog,            \* the create-child POSTs: <<[path, parent, name, status, lookup]>>
    upOutputs,          \* what run() gave core.setOutput
    pass,               \* 1: first session; 2: a second session on the same drive
    firstPass,          \* <<[remote, folderMap]>> as the first session left them
    \* ---- upload-to-sharepoint.sh ----
    shFiles,            \* the files `find` yields
    shPc,               \* "put", "throttle", "done"
    shIdx,              \* position in shFiles
    retry_count,
    response_code,      \* what $(curl ...) captured
    shReport,           \* [successes, failures, failedFiles]
    shPutLog,           \* the PUT requests curl sent: <<[file, status]>>
    shBackoffs,         \* `sleep 5` calls
    \* ---- sta-sp-drive.js and its later form ----
    rVariant,           \* which form of the action runs
    rPath,              \* input sp_folder_path, as its pieces between "/"
    rpc,                \* the step run() is at
    rDriveId,           \* the later form: <<driveId>> once the drive list gave one
    rLog,               \* the lookups made: <<[strategy, calls, result, items, drives]>>
    rFolder,            \* `folder` of run(): <<>> or <<[shape, folderId, driveId]>>
    rOutputs,           \* what run() gave core.setOutput
    rWalk,              \* the requests getFolderByPath made, in order
    \* ---- sta-azure-helper.js and its other form ----
    aForm,              \* which form of the action runs
    aBundle,            \* input key: the certificate bundle
    aPassword,          \* input password
    aDuration,          \* the `duration` the workflow passes
    aNowMs,             \* Date.now() at the call
    aResponse,          \* what the token endpoint answers to a POST
    apc,                \* "start", "done", "exited"
    aDecodes,           \* times the bundle was decoded
    aPayload,           \* <<payload>> once createJWTHeaderAndPayload ran
    aSigned,            \* the assertion got its signature
    aRequests,          \* POSTs sent to the token endpoint
    aWarnings,          \* what core.warning / core.setFailed were given
    aFiles,             \* the files run() left in the working directory
    aOutputs,           \* what run() gave core.setOutput
    \* ---- sta-sp-preview.js (per path) ----
    oPaths,             \* `paths`: the input urls, each a list of characters
    oOperation,         \* input operation
    oPc,                \* "idle", "start", "loop", "await", "returned", "threw"
    oIdx,               \* position of the for loop in paths
    oPath,              \* <<path>> of the operateOnPath call awaiting its response
    oReport,            \* operationReport
    oRequests,          \* the POSTs sent, in order: [input, path]
    oLog,               \* how each response was handled
    oResults,           \* what operateOnPath returned for each input so far
    oOutputs,           \* what run() gave core.setOutput
    \* ---- sta-status ----
    sForm,              \* which form of the status action runs
    sInputs,            \* inputs context, callbacks, message, status_type
    sPc,                \* "idle", "start", "sending", "returned", "exited"
    sPosts,             \* status calls sent
    sTrace,             \* the way run() took
    sFailed,            \* core.setFailed was called
    sExit               \* <<code>> once process.exit(code) was called

pollerVars == <<callers, pc, jobStatusPoll, jobStatusFailures, previewReport, timers,
                promise, inflight, outputs, lastPoll, consec, ownFailures,
                abortConsec, stoppedResp>>
uploadVars == <<sourceFiles, upc, idx, uploadReport, putLog, sleeps>>
syncVars == <<tree, sourceFolders, remote, folderMap, fIdx, segIdx, parentId,
              postLog, upOutputs, pass, firstPass>>
shVars == <<shFiles, shPc, shIdx, retry_count, response_code, shReport, shPutLog,
            shBackoffs>>
resolverVars == <<rVariant, rPath, rpc, rDriveId, rLog, rFolder, rOutputs,
                  rWalk>>
signerVars == <<aForm, aBundle, aPassword, aDuration, aNowMs, aResponse, apc,
                aDecodes, aPayload, aSigned, aRequests, aWarnings, aFiles,
                aOutputs>>
pathVars == <<oPaths, oOperation, oPc, oIdx, oPath, oReport, oRequests, oLog,
              oResults, oOutputs>>
statusVars == <<sForm, sInputs, sPc, sPosts, sTrace, sFailed, sExit>>
otherVars == <<resolverVars, signerVars, pathVars, statusVars>>
vars == <<pollerVars, uploadVars, syncVars, shVars, otherVars>>

\* ===================== sta-sp-preview.js: bulk job poller =================

\* clearInterval(handle): cancels that timer; a no-op for undefined and for a
\* handle that is not active.
ClearIntervalNoop(handle, active) == active
ClearInterval(handle, active) ==
    IF handle = Undefined THEN active ELSE active \ {handle}

\* `processed = 0, failed = 0`: the destructuring defaults of pollJob.
Default0(v) == IF v = Absent THEN 0 ELSE v

\* `if (jobStatusFailures > 6)`, evaluated after the increment.
BudgetNeverExhausted(n) == FALSE
BudgetExhausted(n) == n > JobStatusFailureLimit

\* The finally block of run(): `if (jobStatusPoll) clearInterval(jobStatusPoll)`.
RunFinallyNoClear(handle, active) == active
RunFinally(handle, active) ==
    IF handle # Undefined THEN ClearInterval(handle, active) ELSE active

NoOutputs == [preview_successes |-> <<>>, preview_failures |-> <<>>,
              error_message |-> FALSE]

\* Lines 131-132 of run(): the outputs after the awaited promise resolved.
SuccessOutputsSwapped(report) ==
    [preview_successes |-> <<report.failures>>,
     preview_failures |-> <<report.previews>>, error_message |-> FALSE]
SuccessOutputs(report) ==
    [preview_successes |-> <<report.previews>>,
     preview_failures |-> <<report.failures>>, error_message |-> FALSE]

\* The catch block of run(): only error_message is set.
ErrorOutputsWithCounts ==
    [preview_successes |-> <<0>>, preview_failures |-> <<0>>,
     error_message |-> TRUE]
ErrorOutputs == [NoOutputs EXCEPT !.error_message = TRUE]

PollerInit(cs) ==
    /\ callers = cs
    /\ pc = [s \in Sessions |-> "idle"]
    /\ jobStatusPoll = Undefined
    /\ jobStatusFailures = 0
    /\ previewReport = [previews |-> 0, failures |-> 0]
    /\ timers = {}
    /\ promise = [s \in Sessions |-> "none"]
    /\ inflight = [s \in Sessions |-> 0]
    /\ outputs = [s \in Sessions |-> NoOutputs]
    /\ lastPoll = [s \in Sessions |-> "none"]
    /\ consec = [s \in Sessions |-> 0]
    /\ ownFailures = [s \in Sessions |-> 0]
    /\ abortConsec = [s \in Sessions |-> <<>>]
    /\ stoppedResp = [s \in Sessions |-> <<>>]

\* run() is called: the inputs are read and the bulk POST is issued. Call 1 is
\* the module's own `await run()`; the exported run() can be called again only
\* once the module has loaded, that is after call 1 returned.
RunCall(s) ==
    /\ s \in callers
    /\ pc[s] = "idle"
    /\ s = 2 => pc[1] = "returned"
    /\ pc' = [pc EXCEPT ![s] = "submitting"]
    /\ UNCHANGED <<uploadVars, syncVars, shVars, otherVars>>
    /\ UNCHANGED <<callers, jobStatusPoll, jobStatusFailures, previewReport, timers,
                   promise, inflight, outputs, lastPoll, consec, ownFailures,
                   abortConsec, stoppedResp>>

\* The POST threw, answered !ok, or its body held no job: catch, then finally.
SubmitFail(s) ==
    /\ pc[s] = "submitting"
    /\ outputs' = [outputs EXCEPT ![s] = ErrorOutputs]
    /\ timers' = RunFinally(jobStatusPoll, timers)
    /\ pc' = [pc EXCEPT ![s] = "returned"]
    /\ UNCHANGED <<uploadVars, syncVars, shVars, otherVars>>
    /\ UNCHANGED <<callers, jobStatusPoll, jobStatusFailures, previewReport,
                   promise, inflight, lastPoll, consec, ownFailures,
                   abortConsec, stoppedResp>>

\* The POST answered ok with a job name: the promise is created and
\* `jobStatusPoll = setInterval(...)` starts the repeating timer.
SubmitOk(s) ==
    /\ pc[s] = "submitting"
    /\ promise' = [promise EXCEPT ![s] = "pending"]
    /\ jobStatusPoll' = s
    /\ timers' = timers \cup {s}
    /\ pc' = [pc EXCEPT ![s] = "awaiting"]
    /\ UNCHANGED <<uploadVars, syncVars, shVars, otherVars>>
    /\ UNCHANGED <<callers, jobStatusFailures, previewReport, inflight, outputs,
                   lastPoll, consec, ownFailures, abortConsec, stoppedResp>>

\* The interval fires: `async () => pollJob(options)` issues the status GET.
\* Nothing in the callback looks at an earlier call that is still awaiting.
Tick(s) ==
    /\ s \in timers
    /\ inflight[s] < MaxInflight
    /\ inflight' = [inflight EXCEPT ![s] = @ + 1]
    /\ UNCHANGED <<uploadVars, syncVars, shVars, otherVars>>
    /\ UNCHANGED <<callers, pc, jobStatusPoll, jobStatusFailures, previewReport,
                   timers, promise, outputs, lastPoll, consec, ownFailures,
                   abortConsec, stoppedResp>>

\* fetch() or json() threw: the catch block of pollJob; reject() when the
\* budget is exhausted, and then run() goes through catch and finally.
PollFail(s) ==
    /\ inflight[s] > 0
    /\ jobStatusFailures < MaxFailures
    /\ inflight' = [inflight EXCEPT ![s] = @ - 1]
    /\ jobStatusFailures' = jobStatusFailures + 1
    /\ lastPoll' = [lastPoll EXCEPT ![s] = "failed"]
    /\ consec' = [consec EXCEPT ![s] = @ + 1]
    /\ ownFailures' = [ownFailures EXCEPT ![s] = @ + 1]
    /\ IF BudgetExhausted(jobStatusFailures') /\ promise[s] = "pending"
       THEN /\ promise' = [promise EXCEPT ![s] = "rejected"]
            /\ abortConsec' = [abortConsec EXCEPT ![s] = <<consec'[s]>>]
            /\ outputs' = [outputs EXCEPT ![s] = ErrorOutputs]
            /\ timers' = RunFinally(jobStatusPoll, timers)
            /\ pc' = [pc EXCEPT ![s] = "returned"]
       ELSE UNCHANGED <<promise, abortConsec, outputs, timers, pc>>
    /\ UNCHANGED <<uploadVars, syncVars, shVars, otherVars>>
    /\ UNCHANGED <<callers, jobStatusPoll, previewReport, stoppedResp>>

\* The response parsed and its state is not "stopped": progress is logged.
PollRunning(s) ==
    /\ inflight[s] > 0
    /\ inflight' = [inflight EXCEPT ![s] = @ - 1]
    /\ lastPoll' = [lastPoll EXCEPT ![s] = "running"]
    /\ consec' = [consec EXCEPT ![s] = 0]
    /\ UNCHANGED <<uploadVars, syncVars, shVars, otherVars>>
    /\ UNCHANGED <<callers, pc, jobStatusPoll, jobStatusFailures, previewReport,
                   timers, promise, outputs, ownFailures, abortConsec, stoppedResp>>

\* The response parsed with state "stopped": the timer is cleared, the report
\* written and resolve() called; run(), if it still awaits, sets its outputs
\* and goes through finally (jobStatusPoll is undefined by then).
PollStopped(s) ==
    /\ inflight[s] > 0
    /\ \E processed \in Counter, failed \in Counter :
        LET report == [previews |-> Default0(processed),
                       failures |-> Default0(failed)]
            cleared == ClearInterval(jobStatusPoll, timers)
        IN  /\ inflight' = [inflight EXCEPT ![s] = @ - 1]
            /\ jobStatusPoll' = Undefined
            /\ previewReport' = report
            /\ lastPoll' = [lastPoll EXCEPT ![s] = "stopped"]
            /\ consec' = [consec EXCEPT ![s] = 0]
            /\ stoppedResp' = [stoppedResp EXCEPT ![s] =
                    IF @ = <<>>
                    THEN <<[processed |-> processed, failed |-> failed]>>
                    ELSE @]
            /\ IF promise[s] = "pending"
               THEN /\ promise' = [promise EXCEPT ![s] = "resolved"]
                    /\ outputs' = [outputs EXCEPT ![s] = SuccessOutputs(report)]
                    /\ timers' = RunFinally(Undefined, cleared)
                    /\ pc' = [pc EXCEPT ![s] = "returned"]
               ELSE /\ timers' = cleared
                    /\ UNCHANGED <<promise, outputs, pc>>
    /\ UNCHANGED <<uploadVars, syncVars, shVars, otherVars>>
    /\ UNCHANGED <<callers, jobStatusFailures, ownFailures, abortConsec>>

PollerNext ==
    \E s \in Sessions :
        \/ RunCall(s)
        \/ SubmitFail(s)
        \/ SubmitOk(s)
        \/ Tick(s)
        \/ PollFail(s)
        \/ PollRunning(s)
        \/ PollStopped(s)

\* ================ sta-sharepoint-upload.js: the file uploader =============

Files == 1 .. MaxFiles

\* The sequences without repetition over S, of every length up to Cardinality(S).
RECURSIVE Arrangements(_)
Arrangements(S) ==
    {<<>>} \cup UNION {{<<x>> \o rest : rest \in Arrangements(S \ {x})} : x \in S}

\* What one PUT can come to. status 0: fetch() rejected (no response at all).
\* body: what res.json() makes of a 2xx body ("invalid": json() throws).
NetworkError == 0
PutOutcomes ==
    {[status |-> NetworkError, body |-> "none"]}
    \cup [status : {200, 201}, body : {"object", "null", "invalid"}]
    \cup [status : {400, 404, 429, 500, 503}, body : {"error"}]

\* Response.ok
ResOk(status) == status \in 200 .. 299

\* graphFetch: throws on a rejected fetch, on !res.ok and when json() throws;
\* otherwise returns the parsed body.
GraphFetch(o) ==
    IF o.status = NetworkError \/ ~ResOk(o.status) \/ o.body = "invalid"
    THEN [threw |-> TRUE, value |-> "none"]
    ELSE [threw |-> FALSE, value |-> o.body]

\* uploadFile: one graphFetch inside try/catch; `return !!response`, or false
\* after the catch. Nothing is thrown to the caller.
UploadFileNoCatch(o) ==
    [threw |-> GraphFetch(o).threw,
     success |-> ~GraphFetch(o).threw /\ GraphFetch(o).value = "object"]
UploadFile(o) ==
    [threw |-> FALSE,
     success |-> ~GraphFetch(o).threw /\ GraphFetch(o).value = "object"]

\* The folder id given to run() (input folder_id): the destination root.
RootFolderId == 100

\* `uploadReport.uploads += 1`
RecordSuccess(report) == [report EXCEPT !.uploads = @ + 1]

\* `uploadReport.failures += 1; uploadReport.failedList.push(item)`
RecordFailureNoList(report, item) == [report EXCEPT !.failures = @ + 1]
RecordFailure(report, item) ==
    [report EXCEPT !.failures = @ + 1, !.failedList = Append(@, item)]

\* The PUT of uploadFile: `/drives/${driveId}/items/${folderId}:${file.path}/content`
\* with the folderId that run() was given and the path of the item as it is.
\* The path that follows the colon in that URL.
PutPath(item) == item.path
\* Logged with what the drive answered.
PutRequest(item, o) ==
    [file |-> item, folder |-> RootFolderId, status |-> o.status, body |-> o.body]

UploadInit ==
    /\ sourceFiles \in Arrangements(Files)
    /\ upc = IF sourceFiles = <<>> THEN "done" ELSE "upload"
    /\ idx = 1
    /\ uploadReport = [uploads |-> 0, failures |-> 0, failedList |-> <<>>,
                       failedFolderCreations |-> 0]
    /\ putLog = <<>>
    /\ sleeps = 0

\* No upload session: uploadFiles is never called.
UploadIdle ==
    /\ sourceFiles = <<>>
    /\ upc = "done"
    /\ idx = 1
    /\ uploadReport = [uploads |-> 0, failures |-> 0, failedList |-> <<>>,
                       failedFolderCreations |-> 0]
    /\ putLog = <<>>
    /\ sleeps = 0

\* One iteration of the for-of loop of uploadFiles up to its `await sleep`:
\* uploadFile(item) and the bookkeeping of its result. An exception out of
\* uploadFile would leave the loop (and uploadFiles).
UploadOne ==
    /\ upc = "upload"
    /\ \E o \in PutOutcomes :
        LET item == sourceFiles[idx]
            r == UploadFile(o)
        IN  /\ putLog' = Append(putLog, PutRequest(item, o))
            /\ IF r.threw
               THEN /\ upc' = "thrown"
                    /\ UNCHANGED uploadReport
               ELSE /\ upc' = "sleep"
                    /\ uploadReport' =
                        IF r.success
                        THEN RecordSuccess(uploadReport)
                        ELSE RecordFailure(uploadReport, item)
    /\ UNCHANGED <<sourceFiles, idx, sleeps>>
    /\ UNCHANGED <<pollerVars, syncVars, shVars, otherVars>>

\* `await sleep(delay)` completes and the loop goes to the next item, or ends.
UploadSleepNotCounted ==
    /\ upc = "sleep"
    /\ idx' = idx + 1
    /\ upc' = IF idx + 1 > Len(sourceFiles) THEN "done" ELSE "upload"
    /\ UNCHANGED <<sourceFiles, uploadReport, putLog, sleeps>>
    /\ UNCHANGED <<pollerVars, syncVars, shVars, otherVars>>
UploadSleep ==
    /\ upc = "sleep"
    /\ sleeps' = sleeps + 1
    /\ idx' = idx + 1
    /\ upc' = IF idx + 1 > Len(sourceFiles) THEN "done" ELSE "upload"
    /\ UNCHANGED <<sourceFiles, uploadReport, putLog>>
    /\ UNCHANGED <<pollerVars, syncVars, shVars, otherVars>>

UploadNext == UploadOne \/ UploadSleep

\* ========== sta-sharepoint-upload.js: run, the tree and the folders =======
\* A path string is held as the list of its pieces between "/" (what
\* split('/') returns): "/sub/deep" is <<"", "sub", "deep">>, the empty string
\* is <<"">>; an undefined variable is <<>>.

\* The input zip_dir, an absolute directory.
ZipDir == <<"zip">>

\* The nodes a local tree is drawn from, each with its full path.
TreeUniverse ==
    {[path |-> ZipDir \o <<"a.txt">>, kind |-> "file"],
     [path |-> ZipDir \o <<"sub">>, kind |-> "dir"],
     [path |-> ZipDir \o <<"sub", "b.txt">>, kind |-> "file"],
     [path |-> ZipDir \o <<"sub", "deep">>, kind |-> "dir"],
     [path |-> ZipDir \o <<"sub", "deep", "c.txt">>, kind |-> "file"]}

DirOf(path) == SubSeq(path, 1, Len(path) - 1)
BaseName(path) == path[Len(path)]

\* The trees: every node but the top-level ones lies in a directory of the tree.
Trees ==
    {T \in SUBSET TreeUniverse :
        \A n \in T : DirOf(n.path) # ZipDir =>
            [path |-> DirOf(n.path), kind |-> "dir"] \in T}

\* The order in which readdirSync lists names.
DirOrder == <<"a.txt", "b.txt", "c.txt", "deep", "sub">>

\* fs.readdirSync(dir, { withFileTypes: true })
Entries(T, dir) ==
    LET kids == {n \in T : DirOf(n.path) = dir}
        InDir(nm) == \E n \in kids : BaseName(n.path) = nm
        names == SelectSeq(DirOrder, InDir)
    IN  [i \in 1 .. Len(names) |-> CHOOSE n \in kids : BaseName(n.path) = names[i]]

EmptyStructure == [folders |-> <<>>, files |-> <<>>]

\* getSourceStructure(srcFolder, structure): `structure` is <<>> when the
\* argument is undefined. The recursive call is handed `structure`, not
\* newStructure: with an undefined argument it fills an object of its own,
\* which the caller drops; with a given one it fills that same object.
RECURSIVE GetSourceStructure(_, _, _), ScanEntries(_, _, _, _)
GetSourceStructure(T, srcFolder, structure) ==
    ScanEntries(T, Entries(T, srcFolder), structure,
                IF structure = <<>> THEN EmptyStructure ELSE structure[1])
ScanEntries(T, entries, structure, newStructure) ==
    IF entries = <<>> THEN newStructure
    ELSE LET entry == Head(entries)
             item == [name |-> BaseName(entry.path), path |-> entry.path]
         IN  IF entry.kind = "dir"
             THEN LET pushed == [newStructure EXCEPT !.folders = Append(@, item)]
                      after == IF structure = <<>>
                               THEN pushed
                               ELSE GetSourceStructure(T, entry.path, <<pushed>>)
                  IN  ScanEntries(T, Tail(entries),
                                  IF structure = <<>> THEN <<>> ELSE <<after>>,
                                  after)
             ELSE IF entry.kind = "file"
             THEN ScanEntries(T, Tail(entries), structure,
                              [newStructure EXCEPT !.files = Append(@, item)])
             ELSE ScanEntries(T, Tail(entries), structure, newStructure)

\* `folder.path.replace(zipDir, '')` in run(): the leading zip_dir goes and
\* the "/" that followed it now leads the string.
ReplaceZipDir(path) == <<"">> \o SubSeq(path, Len(ZipDir) + 1, Len(path))

\* The argument run() builds for createFoldersIfNecessary.
FolderArguments(folders) ==
    [i \in 1 .. Len(folders) |->
        [name |-> folders[i].name, path |-> ReplaceZipDir(folders[i].path)]]

\* `currentPath = currentPath ? `${currentPath}/${segment}` : segment`
AppendSegment(currentPath, segment) ==
    IF currentPath = <<>> \/ currentPath = <<"">>
    THEN <<segment>>
    ELSE Append(currentPath, segment)

\* currentPath after the first n segments of a folder's path.
RECURSIVE CurrentPath(_, _)
CurrentPath(segments, n) ==
    IF n = 0 THEN <<>>
    ELSE AppendSegment(CurrentPath(segments, n - 1), segments[n])

\* `folderMap.has(currentPath)`
HasNever(map, currentPath) == FALSE
Has(map, currentPath) == currentPath \in DOMAIN map

\* '@microsoft.graph.conflictBehavior': 'fail'
ConflictBehaviorRename == "rename"
ConflictBehavior == "fail"

\* The else branch of the creation ends in `throw new Error(...)`.
CreateFailureSwallowed == FALSE
CreateFailureThrows == TRUE

\* `folderMap.set('', folderId)`
InitialFolderMap == <<"">> :> RootFolderId

\* The two loops of createFoldersIfNecessary run on, through the segments the
\* map already holds, to the next segment that needs a request: the position
\* of that segment and the parentId at it. f beyond the input: all done.
RECURSIVE Skip(_, _, _, _, _)
Skip(folders, f, s, parent, map) ==
    IF f > Len(folders) THEN [f |-> f, s |-> 1, parent |-> RootFolderId]
    ELSE IF s > Len(folders[f].path)
    THEN Skip(folders, f + 1, 1, RootFolderId, map)
    ELSE LET cur == CurrentPath(folders[f].path, s)
         IN  IF Has(map, cur)
             THEN Skip(folders, f, s + 1, map[cur], map)
             ELSE [f |-> f, s |-> s, parent |-> parent]

\* The drive: its folders of that name in that parent.
RemoteChildren(parent, name) == {r \in remote : r.parent = parent /\ r.name = name}
FreshId == RootFolderId + Cardinality(remote) + 1

\* Drives the session may find: empty, or holding sub, or sub and sub/deep.
RemoteSub == [parent |-> RootFolderId, name |-> "sub", id |-> RootFolderId + 1]
RemoteDeep == [parent |-> RootFolderId + 1, name |-> "deep", id |-> RootFolderId + 2]
RemoteInits == {{}, {RemoteSub}, {RemoteSub, RemoteDeep}}

\* What the name-filtered child lookup after a 409 can answer: the children of
\* that name, or nothing, or two items, or an error status (graphFetch throws).
LookupResults(parent, name) ==
    LET ids == {r.id : r \in RemoteChildren(parent, name)}
    IN  {[threw |-> FALSE, value |-> <<id>>] : id \in ids}
        \cup {[threw |-> FALSE, value |-> <<>>],
              [threw |-> FALSE, value |-> <<FreshId, FreshId + 1>>],
              [threw |-> TRUE, value |-> <<>>]}

NoUpOutputs == [upload_failed_list |-> <<>>, upload_successes |-> <<>>,
                upload_failures |-> <<>>, error_message |-> <<>>]

\* The catch block of run(): `Upload Error: ${error.message}`.
AbortOutputs == [NoUpOutputs EXCEPT !.error_message = <<"aborted">>]

\* `failedList.join(', ')` over the items, which are objects: the pieces of
\* the joined string, one "[object Object]" for each item.
JoinItems(list) == [i \in 1 .. Len(list) |-> "[object Object]"]

\* Lines 265-270 of run().
ReportOutputs(report) ==
    [upload_failed_list |-> <<JoinItems(report.failedList)>>,
     upload_successes |-> <<report.uploads>>,
     upload_failures |-> <<report.uploads>>,
     error_message |-> IF report.uploads > 0 \/ Len(report.failedList) > 0
                       THEN <<"some uploads failed">> ELSE <<>>]

FreshReport == [uploads |-> 0, failures |-> 0, failedList |-> <<>>,
                failedFolderCreations |-> 0]

\* A session starts: the Map is made and the loops run to their first request.
SessionStart(folders, files) ==
    /\ sourceFolders = folders
    /\ sourceFiles = files
    /\ folderMap = InitialFolderMap
    /\ LET at == Skip(folders, 1, 1, RootFolderId, InitialFolderMap)
       IN  fIdx = at.f /\ segIdx = at.s /\ parentId = at.parent
    /\ upc = "folders"
    /\ idx = 1
    /\ uploadReport = FreshReport
    /\ putLog = <<>>
    /\ sleeps = 0
    /\ postLog = <<>>
    /\ upOutputs = NoUpOutputs

\* run() on a local tree: getSourceStructure(zipDir), then the folders.
InitUploadRun ==
    /\ tree \in Trees
    /\ remote \in RemoteInits
    /\ pass = 1
    /\ firstPass = <<>>
    /\ LET sourceData == GetSourceStructure(tree, ZipDir, <<>>)
       IN  SessionStart(FolderArguments(sourceData.folders), sourceData.files)

\* No run(): the variables of the folder phase at rest.
SyncIdle ==
    /\ tree = {}
    /\ sourceFolders = <<>>
    /\ remote = {}
    /\ folderMap = InitialFolderMap
    /\ fIdx = 1
    /\ segIdx = 1
    /\ parentId = RootFolderId
    /\ postLog = <<>>
    /\ upOutputs = NoUpOutputs
    /\ pass = 1
    /\ firstPass = <<>>

\* The request createFoldersIfNecessary is about to make.
AtSegment == sourceFolders[fIdx].path[segIdx]
AtPath == CurrentPath(sourceFolders[fIdx].path, segIdx)
Posting == upc = "folders" /\ fIdx <= Len(sourceFolders)

PostEntry(status, lookup) ==
    [path |-> AtPath, parent |-> parentId, name |-> AtSegment,
     status |-> status, lookup |-> lookup]

\* The loops go on after the segment at hand got `id` (or was left out).
GoOn(id, map) ==
    LET at == Skip(sourceFolders, fIdx, segIdx + 1, id, map)
    IN  fIdx' = at.f /\ segIdx' = at.s /\ parentId' = at.parent

\* The exception leaves createFoldersIfNecessary and run() catches it.
Abort ==
    /\ upc' = "aborted"
    /\ upOutputs' = AbortOutputs
    /\ UNCHANGED <<fIdx, segIdx, parentId, folderMap>>

\* POST children answered 2xx: the drive made the folder; its id is recorded.
FolderCreated ==
    /\ Posting
    /\ RemoteChildren(parentId, AtSegment) = {} \/ ConflictBehavior # "fail"
    /\ LET id == FreshId
           named == IF RemoteChildren(parentId, AtSegment) = {}
                    THEN AtSegment ELSE "renamed"
           map == (AtPath :> id) @@ folderMap
       IN  /\ remote' = remote \cup {[parent |-> parentId, name |-> named, id |-> id]}
           /\ folderMap' = map
           /\ postLog' = Append(postLog, PostEntry(201, "none"))
           /\ GoOn(id, map)
    /\ UNCHANGED <<upc, upOutputs, uploadReport>>
    /\ UNCHANGED <<tree, sourceFolders, pass, firstPass>>
    /\ UNCHANGED <<sourceFiles, idx, putLog, sleeps>>
    /\ UNCHANGED <<pollerVars, shVars, otherVars>>

\* POST children answered 409: the name-filtered lookup, and its one item
\* recorded; no item, several items or a failed lookup throw.
FolderConflict ==
    /\ Posting
    /\ RemoteChildren(parentId, AtSegment) # {} /\ ConflictBehavior = "fail"
    /\ \E existing \in LookupResults(parentId, AtSegment) :
        LET n == Len(existing.value)
            lookup == IF existing.threw THEN "throw"
                      ELSE IF n = 0 THEN "zero" ELSE IF n = 1 THEN "one" ELSE "many"
        IN  /\ postLog' = Append(postLog, PostEntry(409, lookup))
            /\ IF existing.threw \/ n # 1
               THEN Abort
               ELSE LET map == (AtPath :> existing.value[1]) @@ folderMap
                    IN  /\ folderMap' = map
                        /\ GoOn(existing.value[1], map)
                        /\ UNCHANGED <<upc, upOutputs>>
    /\ UNCHANGED <<remote, uploadReport>>
    /\ UNCHANGED <<tree, sourceFolders, pass, firstPass>>
    /\ UNCHANGED <<sourceFiles, idx, putLog, sleeps>>
    /\ UNCHANGED <<pollerVars, shVars, otherVars>>

\* POST children rejected by the network (fetch throws), or answered another
\* status: the else branch counts the failure and throws.
FolderCreateFailed ==
    /\ Posting
    /\ \E status \in {NetworkError, 400, 403, 500} :
        /\ postLog' = Append(postLog, PostEntry(status, "none"))
        /\ uploadReport' =
            IF status = NetworkError THEN uploadReport
            ELSE [uploadReport EXCEPT !.failedFolderCreations = @ + 1]
        /\ IF status = NetworkError \/ CreateFailureThrows
           THEN Abort
           ELSE /\ GoOn(parentId, folderMap)
                /\ UNCHANGED <<upc, upOutputs, folderMap>>
    /\ UNCHANGED remote
    /\ UNCHANGED <<tree, sourceFolders, pass, firstPass>>
    /\ UNCHANGED <<sourceFiles, idx, putLog, sleeps>>
    /\ UNCHANGED <<pollerVars, shVars, otherVars>>

\* createFoldersIfNecessary returns and run() calls uploadFiles.
FoldersDone ==
    /\ upc = "folders"
    /\ fIdx > Len(sourceFolders)
    /\ upc' = IF sourceFiles = <<>> THEN "done" ELSE "upload"
    /\ UNCHANGED <<sourceFiles, idx, uploadReport, putLog, sleeps>>
    /\ UNCHANGED syncVars
    /\ UNCHANGED <<pollerVars, shVars, otherVars>>

\* uploadFiles returned: run() sets its outputs.
RunReport ==
    /\ upc = "done"
    /\ upOutputs' = ReportOutputs(uploadReport)
    /\ upc' = "returned"
    /\ UNCHANGED <<sourceFiles, idx, uploadReport, putLog, sleeps>>
    /\ UNCHANGED <<tree, sourceFolders, remote, folderMap, fIdx, segIdx, parentId,
                   postLog, pass, firstPass>>
    /\ UNCHANGED <<pollerVars, shVars, otherVars>>

\* The action is run once more, on the same tree and against the same drive.
RunAgain ==
    /\ pass = 1
    /\ upc \in {"returned", "aborted"}
    /\ pass' = 2
    /\ firstPass' = <<[remote |-> remote, folderMap |-> folderMap,
                       postLog |-> postLog, ended |-> upc]>>
    /\ folderMap' = InitialFolderMap
    /\ LET at == Skip(sourceFolders, 1, 1, RootFolderId, InitialFolderMap)
       IN  fIdx' = at.f /\ segIdx' = at.s /\ parentId' = at.parent
    /\ upc' = "folders"
    /\ idx' = 1
    /\ uploadReport' = FreshReport
    /\ putLog' = <<>>
    /\ sleeps' = 0
    /\ postLog' = <<>>
    /\ upOutputs' = NoUpOutputs
    /\ UNCHANGED <<tree, sourceFolders, sourceFiles, remote>>
    /\ UNCHANGED <<pollerVars, shVars, otherVars>>

RunNext ==
    \/ FolderCreated
    \/ FolderConflict
    \/ FolderCreateFailed
    \/ FoldersDone
    \/ UploadOne
    \/ UploadSleep
    \/ RunReport
    \/ RunAgain

\* ================= upload-to-sharepoint.sh: the curl loop =================

\* `retry_count -ge 3`
ShRetryLimit == 3

\* $response is never assigned in the script: it expands to the empty string.
ShResponse == ""

\* What $(curl -X PUT ...) captures: curl is run without -w "%{http_code}",
\* so its standard output is the response body, empty or a JSON document.
CurlStdout == {"", "{json}"}

\* [[ "$x" -ge n ]]: the empty string evaluates to 0; a JSON document is a
\* syntax error of the arithmetic expression, and the test is false.
BashGe(x, n) == IF x = "" THEN 0 >= n ELSE FALSE

ShInit ==
    /\ shFiles \in Arrangements(Files)
    /\ shPc = IF shFiles = <<>> THEN "done" ELSE "put"
    /\ shIdx = 1
    /\ retry_count = 0
    /\ response_code = ""
    /\ shReport = [successes |-> 0, failures |-> 0, failedFiles |-> <<>>]
    /\ shPutLog = <<>>
    /\ shBackoffs = 0

\* The script is not run.
ShIdle ==
    /\ shFiles = <<>>
    /\ shPc = "done"
    /\ shIdx = 1
    /\ retry_count = 0
    /\ response_code = ""
    /\ shReport = [successes |-> 0, failures |-> 0, failedFiles |-> <<>>]
    /\ shPutLog = <<>>
    /\ shBackoffs = 0

\* One pass of `while true`: the curl PUT and the if/elif/else on its result.
\* (create_folder, called before the loop, only appends to
\* UPLOAD_FOLDER_CREATION_FAILURES, which the loop never reads.)
ShPut ==
    /\ shPc = "put"
    /\ \E status \in {200, 201, 400, 404, 429, 500, 503}, out \in CurlStdout :
        LET item == shFiles[shIdx]
            failed == [shReport EXCEPT !.failures = @ + 1,
                                       !.failedFiles = Append(@, item)]
        IN  /\ shPutLog' = Append(shPutLog, [file |-> item, status |-> status])
            /\ response_code' = out
            /\ IF ShResponse = "429"
               THEN /\ retry_count' = retry_count + 1
                    /\ IF retry_count' >= ShRetryLimit
                       THEN /\ shReport' = failed
                            /\ shPc' = "throttle"
                            /\ UNCHANGED shBackoffs
                       ELSE /\ shBackoffs' = shBackoffs + 1
                            /\ UNCHANGED <<shReport, shPc>>
               ELSE /\ UNCHANGED <<retry_count, shBackoffs>>
                    /\ shPc' = "throttle"
                    /\ shReport' =
                        IF BashGe(response_code', 400)
                        THEN failed
                        ELSE [shReport EXCEPT !.successes = @ + 1]
    /\ UNCHANGED <<shFiles, shIdx>>
    /\ UNCHANGED <<pollerVars, uploadVars, syncVars, otherVars>>

\* `sleep "$THROTTLE_SECONDS"`, then the next item of find: retry_count=0.
ShThrottle ==
    /\ shPc = "throttle"
    /\ shIdx' = shIdx + 1
    /\ retry_count' = 0
    /\ shPc' = IF shIdx + 1 > Len(shFiles) THEN "done" ELSE "put"
    /\ UNCHANGED <<shFiles, response_code, shReport, shPutLog, shBackoffs>>
    /\ UNCHANGED <<pollerVars, uploadVars, syncVars, otherVars>>

ShNext == ShPut \/ ShThrottle

\* ================== sta-sp-drive.js: the path resolver ====================
\* The repository holds two forms of this action: sta-sp-drive.js ("first")
\* and a later form of the same file ("later").
Forms == {"first", "later"}

\* Inputs sp_folder_path, percent-encoded, as their pieces between "/".
ResolverPaths ==
    {<<"Shared%20Documents", "sites", "my-site">>,
     <<"Documents">>,
     <<"Demo", "sites", "x", "y">>,
     <<"folder", "sub">>}

\* decodeURIComponent(spFolderPath)
DecodePiece(s) == IF s = "Shared%20Documents" THEN "Shared Documents" ELSE s
DecodeURIComponent(path) == [i \in 1 .. Len(path) |-> DecodePiece(path[i])]

\* `folderName.split('/sites/')`: two parts when the marker occurs once
\* (any other count gives a number of parts that is not 2).
MarkerAt(path) == {i \in 2 .. Len(path) - 1 : path[i] = "sites"}
SplitSites(path) ==
    IF Cardinality(MarkerAt(path)) = 1
    THEN LET i == CHOOSE k \in MarkerAt(path) : TRUE
         IN  <<SubSeq(path, 1, i - 1), SubSeq(path, i + 1, Len(path))>>
    ELSE <<path>>
HasMarker(path) == Len(SplitSites(DecodeURIComponent(path))) = 2

\* getFolderByPath: the segments it walks, a leading library name dropped.
WalkSegments(path) ==
    IF path[1] \in {"Documents", "Shared%20Documents"} THEN Tail(path) ELSE path

\* `let currentId = 'root'`
RootAlias == 1

\* Ids the drive API answers with.
FolderIds == {201, 202}
DriveIdOf(i) == 10 + i

\* GET /sites/{siteId}/drives: the names of the drives, or an error.
DriveNames == {"Documents", "Shared Documents", "Demo"}
RECURSIVE DriveLists(_)
DriveLists(n) ==
    IF n = 0 THEN {<<>>}
    ELSE DriveLists(n - 1)
         \cup {Append(l, d) : l \in {k \in DriveLists(n - 1) : Len(k) = n - 1},
                              d \in DriveNames}

\* The drive the later form settles on: the one named as the path's first
\* piece, or else the only drive if it is called Documents.
PickDrive(list, rootDrive) ==
    LET named == {i \in 1 .. Len(list) : list[i] = rootDrive}
    IN  IF named # {}
        THEN <<DriveIdOf(CHOOSE i \in named : \A j \in named : i <= j)>>
        ELSE IF Len(list) = 1 /\ list[1] = "Documents"
        THEN <<DriveIdOf(1)>>
        ELSE <<>>

\* What the search for the last path piece may answer: an error, a body with
\* no `value`, or a list of items.
SearchItems ==
    {[id |-> 201, folder |-> TRUE, driveId |-> DriveIdOf(1)],
     [id |-> 202, folder |-> TRUE, driveId |-> DriveIdOf(2)],
     [id |-> 203, folder |-> FALSE, driveId |-> DriveIdOf(1)]}
RECURSIVE ItemLists(_)
ItemLists(n) ==
    IF n = 0 THEN {<<>>}
    ELSE ItemLists(n - 1)
         \cup {Append(l, d) : l \in {k \in ItemLists(n - 1) : Len(k) = n - 1},
                              d \in SearchItems}
SearchResponses ==
    {[threw |-> TRUE, hasValue |-> FALSE, value |-> <<>>],
     [threw |-> FALSE, hasValue |-> FALSE, value |-> <<>>]}
    \cup {[threw |-> FALSE, hasValue |-> TRUE, value |-> l] : l \in ItemLists(MaxResults)}

IsFolderItem(item) == item.folder

\* searchFolderByName / fetchFolderByPath on a body that arrived: the one
\* folder among the items as {folderId, driveId}, or undefined.
SearchFolderByNameFirst(resp) ==
    LET folder == SelectSeq(resp.value, IsFolderItem)
    IN  IF ~resp.hasValue \/ Len(resp.value) = 0 THEN <<>>
        ELSE IF Len(folder) = 0 THEN <<>>
        ELSE <<[shape |-> "pair", folderId |-> folder[1].id,
                driveId |-> folder[1].driveId]>>
SearchFolderByName(resp) ==
    LET folder == SelectSeq(resp.value, IsFolderItem)
    IN  IF ~resp.hasValue \/ Len(resp.value) = 0 THEN <<>>
        ELSE IF Len(folder) = 0 THEN <<>>
        ELSE IF Len(folder) > 1 THEN <<>>
        ELSE <<[shape |-> "pair", folderId |-> folder[1].id,
                driveId |-> folder[1].driveId]>>

\* The lookup run() turns to when `strategy` gave no folder; "report" when
\* none is left. first: run() then findDriveAndFolderId of sta-sp-drive.js;
\* later: run() then findDriveAndFolderId of the later form.
NextStrategyNameFirst(form, marker, strategy) ==
    IF form = "first"
    THEN CASE strategy = "direct" -> "name"
           [] strategy = "name" -> IF marker THEN "drive" ELSE "report"
           [] OTHER -> "report"
    ELSE CASE strategy = "walk" -> "direct"
           [] strategy = "direct" -> "name"
           [] strategy = "name" -> "drive"
           [] OTHER -> "report"
NextStrategy(form, marker, strategy) ==
    IF form = "first"
    THEN CASE strategy = "direct" -> IF marker THEN "drive" ELSE "name"
           [] strategy = "drive" -> "name"
           [] OTHER -> "report"
    ELSE CASE strategy = "walk" -> "direct"
           [] strategy = "direct" -> "name"
           [] strategy = "name" -> "drive"
           [] OTHER -> "report"

NoResolverOutputs == [drive_id |-> <<>>, folder_id |-> <<>>, error_message |-> <<>>]

\* The end of run(): `if (folder) { setOutput ... } else { error_message }`.
\* first reads folder.parentReference.driveId and folder.id, which only an
\* item of the drive API has: on {folderId, driveId} the read of
\* parentReference.driveId throws a TypeError that nothing catches.
\* later reads folder.driveId and folder.folderId; getFolderByPath's
\* {folderId, fullPath} has no driveId.
ResolverReport(form, folder) ==
    IF folder = <<>>
    THEN [crashed |-> FALSE,
          outputs |-> [NoResolverOutputs EXCEPT !.error_message = <<"no folder">>]]
    ELSE IF form = "first"
    THEN IF folder[1].shape = "item"
         THEN [crashed |-> FALSE,
               outputs |-> [NoResolverOutputs EXCEPT
                                !.drive_id = <<folder[1].driveId>>,
                                !.folder_id = <<folder[1].folderId>>]]
         ELSE [crashed |-> TRUE, outputs |-> NoResolverOutputs]
    ELSE [crashed |-> FALSE,
          outputs |-> [NoResolverOutputs EXCEPT
                           !.drive_id = <<folder[1].driveId>>,
                           !.folder_id = <<folder[1].folderId>>]]

LookupEntry(strategy, calls, result, items, drives) ==
    [strategy |-> strategy, calls |-> calls, result |-> result,
     items |-> items, drives |-> drives]

ResolverInit(forms) ==
    /\ rVariant \in forms
    /\ rPath \in ResolverPaths
    /\ rpc = "site"
    /\ rDriveId = <<>>
    /\ rLog = <<>>
    /\ rFolder = <<>>
    /\ rOutputs = NoResolverOutputs
    /\ rWalk = <<>>

\* No run() of the resolver.
ResolverIdle ==
    /\ rVariant = "first"
    /\ rPath = <<"Documents">>
    /\ rpc = "idle"
    /\ rDriveId = <<>>
    /\ rLog = <<>>
    /\ rFolder = <<>>
    /\ rOutputs = NoResolverOutputs
    /\ rWalk = <<>>


\* run() turns to the next lookup after `strategy`, or to its report.
TurnTo(strategy) == rpc' = NextStrategy(rVariant, HasMarker(rPath), strategy)
Logged(strategy, calls, result, items, drives) ==
    rLog' = Append(rLog, LookupEntry(strategy, calls, result, items, drives))

\* Step 1 of run(): the site id; a failure is reported and run() returns.
GetSite ==
    /\ rpc = "site"
    /\ \E ok \in BOOLEAN :
        IF ok
        THEN /\ rpc' = IF rVariant = "first" THEN "direct" ELSE "drives"
             /\ UNCHANGED rOutputs
        ELSE /\ rpc' = "done"
             /\ rOutputs' = [rOutputs EXCEPT !.error_message = <<"site">>]
    /\ UNCHANGED <<rVariant, rPath, rDriveId, rLog, rFolder>>
    /\ UNCHANGED <<pollerVars, uploadVars, syncVars, shVars, signerVars,
                   pathVars, statusVars>>
    /\ UNCHANGED rWalk

\* later: the drive list and the choice of the drive. With no drive chosen
\* `if (siteId && driveId)` skips all that follows and run() returns.
GetDrives ==
    /\ rpc = "drives"
    /\ \/ /\ rpc' = "done"
          /\ rOutputs' = [rOutputs EXCEPT !.error_message = <<"drives">>]
          /\ UNCHANGED rDriveId
       \/ \E list \in DriveLists(MaxDrives) :
            LET rootDrive == DecodeURIComponent(rPath)[1]
            IN  /\ rDriveId' = PickDrive(list, rootDrive)
                /\ rpc' = IF PickDrive(list, rootDrive) = <<>> THEN "done" ELSE "walk"
                /\ UNCHANGED rOutputs
    /\ UNCHANGED <<rVariant, rPath, rLog, rFolder>>
    /\ UNCHANGED <<pollerVars, uploadVars, syncVars, shVars, signerVars,
                   pathVars, statusVars>>
    /\ UNCHANGED rWalk

\* What the drive answers to GET /drives/{driveId}/root:{currentPath} for
\* each prefix of the segments: <<id>>, or <<>> when graphFetch throws.
WalkAnswers(segments) ==
    [1 .. Len(segments) -> {<<>>} \cup {<<id>> : id \in FolderIds}]

\* The for loop of getFolderByPath from segment i on, `currentId` and the
\* requests made so far in hand: one request for the path up to segment i;
\* the catch returns null, a found segment gives the next currentId.
RECURSIVE WalkFrom(_, _, _, _, _)
WalkFrom(segments, answers, i, currentId, lookups) ==
    IF i > Len(segments)
    THEN [lookups |-> lookups, result |-> <<currentId>>]
    ELSE LET made == Append(lookups, [path |-> SubSeq(segments, 1, i),
                                      found |-> answers[i] # <<>>])
         IN  IF answers[i] = <<>>
             THEN [lookups |-> made, result |-> <<>>]
             ELSE WalkFrom(segments, answers, i + 1, answers[i][1], made)

\* getFolderByPath: the walk from the first segment, currentId = 'root'.
GetFolderByPathNoReturn(segments, answers) ==
    [lookups |-> [i \in 1 .. Len(segments) |->
                    [path |-> SubSeq(segments, 1, i), found |-> answers[i] # <<>>]],
     result |-> IF \E i \in 1 .. Len(segments) : answers[i] = <<>>
                THEN <<>>
                ELSE <<IF segments = <<>> THEN RootAlias
                       ELSE answers[Len(segments)][1]>>]
GetFolderByPath(segments, answers) ==
    WalkFrom(segments, answers, 1, RootAlias, <<>>)

\* later: getFolderByPath looks the path up piece by piece, one request for
\* each, and gives up (null) at the first request that fails.
WalkLookup ==
    /\ rpc = "walk"
    /\ \E answers \in WalkAnswers(WalkSegments(rPath)) :
        LET walk == GetFolderByPath(WalkSegments(rPath), answers)
        IN  /\ rWalk' = walk.lookups
            /\ IF walk.result # <<>>
               THEN /\ rFolder' = <<[shape |-> "walk",
                                     folderId |-> walk.result[1],
                                     driveId |-> Undefined]>>
                    /\ Logged("walk", Len(walk.lookups), "found", <<>>, 0)
                    /\ rpc' = "report"
               ELSE /\ Logged("walk", Len(walk.lookups), "none", <<>>, 0)
                    /\ TurnTo("walk")
                    /\ UNCHANGED rFolder
    /\ UNCHANGED <<rVariant, rPath, rDriveId, rOutputs>>
    /\ UNCHANGED <<pollerVars, uploadVars, syncVars, shVars, signerVars,
                   pathVars, statusVars>>

\* The path looked up as it stands: first under the site's default drive
\* (the item itself becomes `folder`), later under the chosen drive
\* ({folderId, driveId} is built from the item).
DirectLookup ==
    /\ rpc = "direct"
    /\ \/ \E id \in FolderIds :
            /\ rFolder' = <<[shape |-> IF rVariant = "first" THEN "item" ELSE "pair",
                             folderId |-> id, driveId |-> DriveIdOf(1)]>>
            /\ Logged("direct", 1, "found", <<>>, 0)
            /\ rpc' = "report"
       \/ /\ Logged("direct", 1, "threw", <<>>, 0)
          /\ TurnTo("direct")
          /\ UNCHANGED rFolder
    /\ UNCHANGED <<rVariant, rPath, rDriveId, rOutputs>>
    /\ UNCHANGED <<pollerVars, uploadVars, syncVars, shVars, signerVars,
                   pathVars, statusVars>>
    /\ UNCHANGED rWalk

\* searchByDrive: the drives of that name; with exactly one, the path inside
\* it. Every failure is caught and gives undefined. The later form is called
\* with three arguments, so its folderPath is undefined and the split of it
\* throws, inside the try, before any request for the path.
DriveNameLookup ==
    /\ rpc = "drive"
    /\ \/ /\ Logged("drive", 1, "threw", <<>>, 0)
          /\ TurnTo("drive")
          /\ UNCHANGED rFolder
       \/ \E n \in 0 .. MaxDrives :
            IF n # 1 \/ rVariant = "later"
            THEN /\ Logged("drive", 1, "none", <<>>, n)
                 /\ TurnTo("drive")
                 /\ UNCHANGED rFolder
            ELSE \/ \E id \in FolderIds :
                    /\ rFolder' = <<[shape |-> "pair", folderId |-> id,
                                     driveId |-> DriveIdOf(1)]>>
                    /\ Logged("drive", 2, "found", <<>>, n)
                    /\ rpc' = "report"
                 \/ /\ Logged("drive", 2, "none", <<>>, n)
                    /\ TurnTo("drive")
                    /\ UNCHANGED rFolder
    /\ UNCHANGED <<rVariant, rPath, rDriveId, rOutputs>>
    /\ UNCHANGED <<pollerVars, uploadVars, syncVars, shVars, signerVars,
                   pathVars, statusVars>>
    /\ UNCHANGED rWalk

\* searchFolderByName / fetchFolderByPath: one request for the last piece of
\* the path. Its error leaves findDriveAndFolderId and is caught in run().
NameSearch ==
    /\ rpc = "name"
    /\ \E resp \in SearchResponses :
        IF resp.threw
        THEN /\ Logged("name", 1, "threw", <<>>, 0)
             /\ rpc' = "report"
             /\ UNCHANGED rFolder
        ELSE IF SearchFolderByName(resp) # <<>>
        THEN /\ rFolder' = SearchFolderByName(resp)
             /\ Logged("name", 1, "found", resp.value, 0)
             /\ rpc' = "report"
        ELSE /\ Logged("name", 1, "none", resp.value, 0)
             /\ TurnTo("name")
             /\ UNCHANGED rFolder
    /\ UNCHANGED <<rVariant, rPath, rDriveId, rOutputs>>
    /\ UNCHANGED <<pollerVars, uploadVars, syncVars, shVars, signerVars,
                   pathVars, statusVars>>
    /\ UNCHANGED rWalk

\* The outputs, or the error_message, or the uncaught TypeError.
ReportFolder ==
    /\ rpc = "report"
    /\ LET r == ResolverReport(rVariant, rFolder)
       IN  /\ rpc' = IF r.crashed THEN "crashed" ELSE "done"
           /\ rOutputs' = r.outputs
    /\ UNCHANGED <<rVariant, rPath, rDriveId, rLog, rFolder>>
    /\ UNCHANGED <<pollerVars, uploadVars, syncVars, shVars, signerVars,
                   pathVars, statusVars>>
    /\ UNCHANGED rWalk

ResolverNext ==
    \/ GetSite
    \/ GetDrives
    \/ WalkLookup
    \/ DirectLookup
    \/ DriveNameLookup
    \/ NameSearch
    \/ ReportFolder

\* ================ sta-azure-helper.js: assertion and token ================
\* The repository holds two forms of this action: sta-azure-helper.js, which
\* decodes the bundle with node-forge ("forge"), and a form that calls the
\* openssl command ("openssl").
SignerForms == {"forge", "openssl"}

\* A certificate bundle: whether it is a PKCS#12 structure at all, the
\* password it is protected with, whether it holds a private key.
EmptyPassword == ""
Bundles ==
    {[wellFormed |-> TRUE, password |-> "secret", hasKey |-> TRUE],
     [wellFormed |-> TRUE, password |-> EmptyPassword, hasKey |-> TRUE],
     [wellFormed |-> TRUE, password |-> "secret", hasKey |-> FALSE],
     [wellFormed |-> FALSE, password |-> "secret", hasKey |-> TRUE]}
Passwords == {"secret", "wrong", EmptyPassword}

\* The lifetimes the workflow asks for: max(3600, file_count * 3 + 120).
Durations == {3600, 4800, 7200}
NowMsChoices == {1000, 86400999}
ClientId == "client"
TenantId == "tenant"

\* The token endpoint: no answer (0), or a status with a body.
TokenResponses ==
    {[status |-> NetworkError, access_token |-> "none"],
     [status |-> 200, access_token |-> "bearer"],
     [status |-> 400, access_token |-> "none"],
     [status |-> 401, access_token |-> "none"]}

\* forge: decode64, fromDer, pkcs12FromAsn1(p12Asn1, password), getBags and
\* `if (!privateKey) throw`: the key, or an exception.
ForgeExtractKeyUnchecked(bundle, password) == [threw |-> FALSE]
ForgeExtractKey(bundle, password) ==
    [threw |-> ~bundle.wellFormed \/ bundle.password # password \/ ~bundle.hasKey]

\* openssl: `openssl pkcs12 ... -passin pass:` twice, the password input left
\* out of the command: the commands fail unless the bundle opens with the
\* empty password.
OpensslExtractKey(bundle, password) ==
    [threw |-> ~bundle.wellFormed \/ bundle.password # EmptyPassword]

\* `const tokenUrl = `https://login.microsoftonline.com/${tenantId}/oauth2/v2.0/token``
TokenUrl(tenantId) == <<"https://login.microsoftonline.com/", tenantId, "/oauth2/v2.0/token">>

\* `Math.floor(Date.now() / 1000)`
NowSeconds(ms) == ms \div 1000

\* The lifetime createJWTHeaderAndPayload gives the assertion: 60 minutes.
AssertionLifetime == 3600

\* createJWTHeaderAndPayload(thumbprint, tenantId, clientId): the payload
\* (jti, a fresh random UUID, left out).
CreateJWTPayload(tenantId, clientId, nowMs) ==
    [aud |-> TokenUrl(tenantId), iss |-> clientId, sub |-> clientId,
     nbf |-> NowSeconds(nowMs), exp |-> NowSeconds(nowMs) + AssertionLifetime]

\* The names run() can refer to: the imports of the file, the globals of
\* node, the constants run() declares.
InScope(form) ==
    {"fetch", "Buffer", "URLSearchParams", "JSON", "Math", "Date", "process"}
    \cup (IF form = "forge"
          THEN {"core", "forge", "crypto", "privateKey", "privateKeyPem", "tokenUrl",
                "data", "options"}
          ELSE {"core", "fs", "execSync", "crypto", "uuidv4", "privateKey", "tokenUrl"})

\* The names the signing statement and the request statement refer to:
\* forge: sign.sign(privateKey, ...) and https.request(tokenEndpoint, ...);
\* openssl: sign.sign(privateKeyPem, ...) and fetch(tokenUrl, ...).
SigningNames(form) == IF form = "forge" THEN {"privateKey"} ELSE {"privateKeyPem"}
RequestNames(form) == IF form = "forge" THEN {"https", "tokenEndpoint"} ELSE {"fetch", "tokenUrl"}

\* sign.sign(key, ...): forge hands it the key object of node-forge, which
\* node's crypto may refuse; openssl would hand it the PEM text.
KeyAccepted(form) == IF form = "forge" THEN BOOLEAN ELSE {TRUE}

\* A statement that refers to a name that is not in scope throws a
\* ReferenceError.
ReferenceError(form, names) == ~(names \subseteq InScope(form))

NoSignerOutputs == [access_token |-> <<>>]

\* The files run() writes: openssl writes the bundle to ./temp.pfx and has
\* the openssl commands write ./key.pem and ./cert.pem; no statement of
\* either form removes a file. forge works in memory.
FilesWritten(form, extracted) ==
    IF form = "forge" THEN {}
    ELSE IF extracted THEN {"temp.pfx", "key.pem", "cert.pem"}
    ELSE {"temp.pfx"}

\* What the handler of the answer does: forge sets the output on a status
\* from 200 to 299 and warns with status and body otherwise; openssl sets it
\* when res.ok and warns with the body otherwise. No answer: a warning.
AnswerHandled(form, resp) ==
    IF resp.status = NetworkError
    THEN [outputs |-> NoSignerOutputs, warnings |-> <<"request failed">>]
    ELSE IF ResOk(resp.status)
    THEN [outputs |-> [access_token |-> <<resp.access_token>>], warnings |-> <<>>]
    ELSE [outputs |-> NoSignerOutputs, warnings |-> <<"failed to get token">>]

SignerInit ==
    /\ aForm \in SignerForms
    /\ aBundle \in Bundles
    /\ aPassword \in Passwords
    /\ aDuration \in Durations
    /\ aNowMs \in NowMsChoices
    /\ aResponse \in TokenResponses
    /\ apc = "start"
    /\ aDecodes = 0
    /\ aPayload = <<>>
    /\ aSigned = FALSE
    /\ aRequests = 0
    /\ aWarnings = <<>>
    /\ aFiles = {}
    /\ aOutputs = NoSignerOutputs

\* No run() of the token action.
SignerIdle ==
    /\ aForm = "forge"
    /\ aBundle = [wellFormed |-> TRUE, password |-> "secret", hasKey |-> TRUE]
    /\ aPassword = "secret"
    /\ aDuration = AssertionLifetime
    /\ aNowMs = 1000
    /\ aResponse = [status |-> 200, access_token |-> "bearer"]
    /\ apc = "idle"
    /\ aDecodes = 0
    /\ aPayload = <<>>
    /\ aSigned = FALSE
    /\ aRequests = 0
    /\ aWarnings = <<>>
    /\ aFiles = {}
    /\ aOutputs = NoSignerOutputs


\* run(): the bundle is decoded, the assertion built and signed, the request
\* sent and its answer handled. forge has one try around all of it, whose
\* catch warns; openssl ends the process when the extraction fails and has a
\* try around the rest.
SignerRun ==
    /\ apc = "start"
    /\ aDecodes' = aDecodes + 1
    /\ aFiles' = aFiles \cup FilesWritten(aForm,
                    ~(IF aForm = "forge"
                      THEN ForgeExtractKey(aBundle, aPassword)
                      ELSE OpensslExtractKey(aBundle, aPassword)).threw)
    /\ \E accepted \in KeyAccepted(aForm) :
       LET key == IF aForm = "forge"
                  THEN ForgeExtractKey(aBundle, aPassword)
                  ELSE OpensslExtractKey(aBundle, aPassword)
           payload == CreateJWTPayload(TenantId, ClientId, aNowMs)
           answer == AnswerHandled(aForm, aResponse)
       IN  IF key.threw
           THEN /\ apc' = IF aForm = "forge" THEN "done" ELSE "exited"
                /\ aWarnings' = <<"failed to extract key">>
                /\ UNCHANGED <<aPayload, aSigned, aRequests, aOutputs>>
           ELSE IF ReferenceError(aForm, SigningNames(aForm)) \/ ~accepted
           THEN /\ apc' = "done"
                /\ aPayload' = <<payload>>
                /\ aWarnings' = <<"failed to extract access token">>
                /\ UNCHANGED <<aSigned, aRequests, aOutputs>>
           ELSE IF ReferenceError(aForm, RequestNames(aForm))
           THEN /\ apc' = "done"
                /\ aPayload' = <<payload>>
                /\ aSigned' = TRUE
                /\ aWarnings' = <<"failed to extract access token">>
                /\ UNCHANGED <<aRequests, aOutputs>>
           ELSE /\ apc' = "done"
                /\ aPayload' = <<payload>>
                /\ aSigned' = TRUE
                /\ aRequests' = aRequests + 1
                /\ aWarnings' = answer.warnings
                /\ aOutputs' = answer.outputs
    /\ UNCHANGED <<aForm, aBundle, aPassword, aDuration, aNowMs, aResponse>>
    /\ UNCHANGED <<pollerVars, uploadVars, syncVars, shVars, resolverVars,
                   pathVars, statusVars>>

SignerNext == SignerRun

\* ============ sta-sp-preview.js (per path): operateOnPath, run ============

\* Paths are lists of characters.
PathChars == {"/", ".", "a"}
MaxPathLen == 3
MaxPaths == 2

RECURSIVE Strings(_)
Strings(n) ==
    IF n = 0 THEN {<<>>}
    ELSE LET shorter == Strings(n - 1)
         IN  shorter \cup {Append(x, c) : x \in shorter, c \in PathChars}

\* Longer inputs: /a.b.c, /d.e/a and /a.b
ReportPaths ==
    {<<"/", "a", ".", "b", ".", "c">>,
     <<"/", "d", ".", "e", "/", "a">>,
     <<"/", "a", ".", "b">>}

\* `urlsInput.split(',').map(trim)`: at least one path.
PathLists ==
    {<<p>> : p \in Strings(MaxPathLen)}
        \cup UNION {[1 .. n -> ReportPaths] : n \in 1 .. MaxPaths}

\* s.lastIndexOf(c), positions counted from 1 and 0 for "not found".
LastIndexOf(s, c) ==
    LET hits == {i \in 1 .. Len(s) : s[i] = c}
    IN  IF hits = {} THEN 0 ELSE CHOOSE i \in hits : \A j \in hits : j <= i

\* removeExtension(path)
RemoveExtension(path) ==
    LET lastSlash == LastIndexOf(path, "/")
        fileName == SubSeq(path, lastSlash + 1, Len(path))
        dotIndex == LastIndexOf(fileName, ".")
    IN  IF dotIndex = 0 THEN path
        ELSE SubSeq(path, 1, lastSlash) \o SubSeq(fileName, 1, dotIndex - 1)

\* Response statuses operateOnPath tells apart, and one of each other kind.
StatusOk == 200
UnsupportedMedia == 415
Locked == 423
ServerError == 500

\* What fetch gives: it threw, or a status and whether the body, as JSON,
\* holds data[operation].url.
PathResponses ==
    {[threw |-> TRUE, status |-> StatusOk, body |-> FALSE]}
        \cup {[threw |-> FALSE, status |-> st, body |-> b] :
                st \in {StatusOk, UnsupportedMedia, Locked, ServerError},
                b \in BOOLEAN}

Returns(value) == [announced |-> <<>>, retried |-> <<>>, returned |-> <<value>>]

\* operateOnPath after its fetch settled: what it announces with core.info,
\* the path it calls itself with, or the value it returns.
OperateOnPathNoGuard(path, resp) ==
    IF ~resp.threw /\ resp.status = UnsupportedMedia
    THEN [announced |-> <<RemoveExtension(path)>>,
          retried |-> <<RemoveExtension(RemoveExtension(path))>>,
          returned |-> <<>>]
    ELSE Returns(~resp.threw /\ resp.status = StatusOk /\ resp.body)
OperateOnPath(path, resp) ==
    IF resp.threw THEN Returns(FALSE)
    ELSE IF resp.status # StatusOk
    THEN IF resp.status = UnsupportedMedia /\ RemoveExtension(path) # path
         THEN [announced |-> <<RemoveExtension(path)>>,
               retried |-> <<RemoveExtension(RemoveExtension(path))>>,
               returned |-> <<>>]
         ELSE Returns(FALSE)
    ELSE Returns(resp.body)

\* `operationInput === 'publish' ? 'live' : operationInput`, after `|| 'preview'`
Operations == {"", "publish", "delete"}
OperationOf(input) ==
    IF input = "" THEN "preview" ELSE IF input = "publish" THEN "live" ELSE input
\* OP_LABEL[operation]
OpLabel(operation) ==
    IF operation = "preview" THEN <<"preview">>
    ELSE IF operation = "live" THEN <<"publish">> ELSE <<>>

\* failureList.join(',')
RECURSIVE JoinComma(_)
JoinComma(list) ==
    IF list = <<>> THEN <<>>
    ELSE IF Len(list) = 1 THEN list[1]
    ELSE list[1] \o <<",">> \o JoinComma(Tail(list))

NoPathOutputs ==
    [successes |-> <<>>, failures |-> <<>>, failure_list |-> <<>>,
     error_message |-> <<>>]

PathInit ==
    /\ oPaths \in PathLists
    /\ oOperation \in Operations
    /\ oPc = "start"
    /\ oIdx = 1
    /\ oPath = <<>>
    /\ oReport = [successes |-> 0, failures |-> 0, failureList |-> <<>>]
    /\ oRequests = <<>>
    /\ oLog = <<>>
    /\ oResults = <<>>
    /\ oOutputs = NoPathOutputs

\* No run() of the per-path action.
PathIdle ==
    /\ oPaths = <<>>
    /\ oOperation = ""
    /\ oPc = "idle"
    /\ oIdx = 1
    /\ oPath = <<>>
    /\ oReport = [successes |-> 0, failures |-> 0, failureList |-> <<>>]
    /\ oRequests = <<>>
    /\ oLog = <<>>
    /\ oResults = <<>>
    /\ oOutputs = NoPathOutputs

\* run() up to its try block: an operation without a label sets error_message
\* and returns; JSON.parse(context) stands outside the try, so its error
\* leaves run().
PathStart ==
    /\ oPc = "start"
    /\ \E contextParses \in BOOLEAN :
        IF OpLabel(OperationOf(oOperation)) = <<>>
        THEN /\ oOutputs' = [oOutputs EXCEPT !.error_message = <<"invalid">>]
             /\ oPc' = "returned"
        ELSE /\ oPc' = IF contextParses THEN "loop" ELSE "threw"
             /\ UNCHANGED oOutputs
    /\ UNCHANGED <<oPaths, oOperation, oIdx, oPath, oReport, oRequests, oLog,
                   oResults>>
    /\ UNCHANGED <<pollerVars, uploadVars, syncVars, shVars, resolverVars,
                   signerVars, statusVars>>

\* The for loop calls operateOnPath for the next path: its POST is sent.
OperateCall ==
    /\ oPc = "loop"
    /\ oIdx <= Len(oPaths)
    /\ oPath' = <<oPaths[oIdx]>>
    /\ oRequests' = Append(oRequests, [input |-> oIdx, path |-> oPaths[oIdx]])
    /\ oPc' = "await"
    /\ UNCHANGED <<oPaths, oOperation, oIdx, oReport, oLog, oResults, oOutputs>>
    /\ UNCHANGED <<pollerVars, uploadVars, syncVars, shVars, resolverVars,
                   signerVars, statusVars>>

\* The POST settled: operateOnPath calls itself, which sends the next POST, or
\* returns, and the loop body counts the input path.
OperateAnswer ==
    /\ oPc = "await"
    /\ \E resp \in PathResponses :
        LET step == OperateOnPath(oPath[1], resp)
        IN  /\ oLog' = Append(oLog, [input |-> oIdx, path |-> oPath[1],
                                     threw |-> resp.threw, status |-> resp.status,
                                     announced |-> step.announced,
                                     retried |-> step.retried,
                                     returned |-> step.returned])
            /\ IF step.retried # <<>>
               THEN /\ oPath' = step.retried
                    /\ oRequests' = Append(oRequests, [input |-> oIdx,
                                                       path |-> step.retried[1]])
                    /\ UNCHANGED <<oPc, oIdx, oReport, oResults>>
               ELSE /\ oPath' = <<>>
                    /\ oReport' =
                        IF step.returned[1]
                        THEN [oReport EXCEPT !.successes = @ + 1]
                        ELSE [oReport EXCEPT !.failures = @ + 1,
                                !.failureList = Append(@, oPaths[oIdx])]
                    /\ oResults' = Append(oResults, step.returned[1])
                    /\ oIdx' = oIdx + 1
                    /\ oPc' = "loop"
                    /\ UNCHANGED oRequests
    /\ UNCHANGED <<oPaths, oOperation, oOutputs>>
    /\ UNCHANGED <<pollerVars, uploadVars, syncVars, shVars, resolverVars,
                   signerVars, statusVars>>

\* After the loop: the outputs. Nothing in the try block throws (operateOnPath
\* catches what its fetch throws), so the catch of run() is never entered.
PathReport ==
    /\ oPc = "loop"
    /\ oIdx > Len(oPaths)
    /\ oOutputs' = [successes |-> <<oReport.successes>>,
                    failures |-> <<oReport.failures>>,
                    failure_list |-> <<JoinComma(oReport.failureList)>>,
                    error_message |-> IF oReport.failures > 0
                                      THEN <<"failed">> ELSE <<>>]
    /\ oPc' = "returned"
    /\ UNCHANGED <<oPaths, oOperation, oIdx, oPath, oReport, oRequests, oLog,
                   oResults>>
    /\ UNCHANGED <<pollerVars, uploadVars, syncVars, shVars, resolverVars,
                   signerVars, statusVars>>

PathNext == PathStart \/ OperateCall \/ OperateAnswer \/ PathReport

\* ============================== sta-status ================================
\* Three forms: index.js ("client", which sends through CallbackClient) and
\* the two later forms ("fetch", "callback").
StatusForms == {"client", "fetch", "callback"}

\* No run() of the status action.
StatusIdle ==
    /\ sForm = "client"
    /\ sInputs = [context |-> "", callbacks |-> "", message |-> "",
                  statusType |-> ""]
    /\ sPc = "idle"
    /\ sPosts = 0
    /\ sTrace = <<>>
    /\ sFailed = FALSE
    /\ sExit = <<>>

OtherIdle == ResolverIdle /\ SignerIdle /\ PathIdle /\ StatusIdle

\* The inputs: context and callbacks are JSON texts (callbacks with or
\* without an apiKey), texts that do not parse, or empty.
StatusTypes == {"", "ok", "error", "progress", "bogus"}
StatusInputs ==
    [context : {"", "json", "malformed"},
     callbacks : {"", "json", "nokey", "malformed"},
     message : {"", "m"},
     statusType : StatusTypes]

\* `['ok', 'error', 'progress'].includes(statusType)`
ValidType(statusType) == statusType \in {"ok", "error", "progress"}
\* `!context || !callbacks || !message || !statusType`
MissingInput(in) ==
    in.context = "" \/ in.callbacks = "" \/ in.message = "" \/ in.statusType = ""

\* `if (statusType === 'error') { process.exit(1); }`
ExitOnError(statusType) == IF statusType = "error" THEN <<1>> ELSE <<>>

Ends(way, failed, finally) ==
    [send |-> FALSE, way |-> way, failed |-> failed, finally |-> finally]
Sends == [send |-> TRUE, way |-> "sending", failed |-> FALSE, finally |-> FALSE]

\* run() up to its status call: whether the call is sent and, when not, the
\* way run() ends, whether it called core.setFailed, and whether a finally
\* block runs on that way. First index.js, which has no finally block.
BeforeSendClient(in) ==
    IF MissingInput(in) THEN Ends("skipped", FALSE, FALSE)
    ELSE IF in.callbacks = "malformed" THEN Ends("threw", TRUE, FALSE)
    ELSE IF ~ValidType(in.statusType) THEN Ends("invalid", FALSE, FALSE)
    ELSE Sends
\* The form that calls fetch itself: the status type is looked at before the
\* try block, the callbacks are parsed before the inputs are looked at.
BeforeSendFetch(in) ==
    IF ~ValidType(in.statusType) THEN Ends("invalid", FALSE, FALSE)
    ELSE IF in.callbacks \in {"", "malformed"} THEN Ends("threw", FALSE, TRUE)
    ELSE IF MissingInput(in) \/ in.callbacks = "nokey"
    THEN Ends("skipped", FALSE, TRUE)
    ELSE IF in.context = "malformed" THEN Ends("threw", FALSE, TRUE)
    ELSE Sends
\* The form with sendCallback: everything stands inside the try block.
BeforeSendCallback(in) ==
    IF MissingInput(in) THEN Ends("skipped", FALSE, TRUE)
    ELSE IF "malformed" \in {in.context, in.callbacks}
    THEN Ends("threw", TRUE, TRUE)
    ELSE IF ~ValidType(in.statusType) THEN Ends("invalid", TRUE, TRUE)
    ELSE Sends
BeforeSend(form, in) ==
    IF form = "client" THEN BeforeSendClient(in)
    ELSE IF form = "fetch" THEN BeforeSendFetch(in)
    ELSE BeforeSendCallback(in)

\* How a status call can settle: answered ok, answered with another status,
\* or thrown.
SendOutcomes == {"ok", "notok", "threw"}
Way(outcome) == IF outcome = "ok" THEN "sent" ELSE outcome

\* run() after the status call settled. index.js exits inside the try block,
\* after a call that succeeded; its catch calls core.setFailed and returns.
AfterSendClient(statusType, outcome) ==
    [way |-> Way(outcome), failed |-> outcome # "ok",
     exit |-> IF outcome = "ok" THEN ExitOnError(statusType) ELSE <<>>]
\* A failure is a warning; the finally block exits.
AfterSendFetch(statusType, outcome) ==
    [way |-> Way(outcome), failed |-> FALSE, exit |-> ExitOnError(statusType)]
\* sendCallback throws on a failure, the catch calls core.setFailed; the
\* finally block exits.
AfterSendCallback(statusType, outcome) ==
    [way |-> Way(outcome), failed |-> outcome # "ok",
     exit |-> ExitOnError(statusType)]
AfterSend(form, statusType, outcome) ==
    IF form = "client" THEN AfterSendClient(statusType, outcome)
    ELSE IF form = "fetch" THEN AfterSendFetch(statusType, outcome)
    ELSE AfterSendCallback(statusType, outcome)

StatusInit ==
    /\ sForm \in StatusForms
    /\ sInputs \in StatusInputs
    /\ sPc = "start"
    /\ sPosts = 0
    /\ sTrace = <<>>
    /\ sFailed = FALSE
    /\ sExit = <<>>

Ended(exit) == IF exit = <<>> THEN "returned" ELSE "exited"

\* run() is called and runs to its status call, or to its end.
StatusCall ==
    /\ sPc = "start"
    /\ LET step == BeforeSend(sForm, sInputs)
           exit == IF step.finally THEN ExitOnError(sInputs.statusType) ELSE <<>>
       IN  /\ sTrace' = Append(sTrace, step.way)
           /\ sFailed' = step.failed
           /\ IF step.send
              THEN /\ sPosts' = sPosts + 1
                   /\ sPc' = "sending"
                   /\ UNCHANGED sExit
              ELSE /\ sExit' = exit
                   /\ sPc' = Ended(exit)
                   /\ UNCHANGED sPosts
    /\ UNCHANGED <<sForm, sInputs>>
    /\ UNCHANGED <<pollerVars, uploadVars, syncVars, shVars, resolverVars,
                   signerVars, pathVars>>

\* The status call settled.
StatusAnswer ==
    /\ sPc = "sending"
    /\ \E outcome \in SendOutcomes :
        LET step == AfterSend(sForm, sInputs.statusType, outcome)
        IN  /\ sTrace' = Append(sTrace, step.way)
            /\ sFailed' = step.failed
            /\ sExit' = step.exit
            /\ sPc' = Ended(step.exit)
    /\ UNCHANGED <<sForm, sInputs, sPosts>>
    /\ UNCHANGED <<pollerVars, uploadVars, syncVars, shVars, resolverVars,
                   signerVars, pathVars>>

StatusNext == StatusCall \/ StatusAnswer

\* ============================ specifications ==============================

\* The action as GitHub runs it: the module is loaded and run() called once.
InitJobPoller == PollerInit({1}) /\ UploadIdle /\ SyncIdle /\ ShIdle /\ OtherIdle
SpecJobPoller == InitJobPoller /\ [][PollerNext]_vars

\* The same run with the scheduling the runtime gives it: the module's call of
\* run() is made, the bulk POST settles, an active interval keeps firing its
\* callback every 4000 ms, and a status GET that was issued settles (answers
\* or throws).
PollerFairness ==
    /\ WF_vars(RunCall(1))
    /\ WF_vars(SubmitFail(1) \/ SubmitOk(1))
    /\ WF_vars(Tick(1))
    /\ WF_vars(PollFail(1) \/ PollRunning(1) \/ PollStopped(1))
SpecJobPollerFair == InitJobPoller /\ [][PollerNext]_vars /\ PollerFairness

\* The module loaded, and its exported run() called once more afterwards.
InitTwoCalls == PollerInit({1, 2}) /\ UploadIdle /\ SyncIdle /\ ShIdle /\ OtherIdle
SpecTwoCalls == InitTwoCalls /\ [][PollerNext]_vars

\* uploadFiles of the node action, over every list of source files.
InitUploader == PollerInit({}) /\ UploadInit /\ SyncIdle /\ ShIdle /\ OtherIdle
SpecUploader == InitUploader /\ [][UploadNext]_vars

\* The upload loop of the shell variant, over every list of files.
InitShUploader == PollerInit({}) /\ UploadIdle /\ SyncIdle /\ ShInit /\ OtherIdle
SpecShUploader == InitShUploader /\ [][ShNext]_vars

\* createFoldersIfNecessary and uploadFiles on directory lists and file lists
\* of any shape, among them directories that share a prefix and files that
\* lie in a directory.
FolderPaths == {<<"", "sub">>, <<"", "sub", "deep">>, <<"", "top">>, <<"sub", "deep">>}
FolderItems == {[name |-> BaseName(q), path |-> q] : q \in FolderPaths}
RECURSIVE FolderLists(_)
FolderLists(n) ==
    IF n = 0 THEN {<<>>}
    ELSE FolderLists(n - 1)
         \cup {Append(l, d) : l \in {k \in FolderLists(n - 1) : Len(k) = n - 1},
                              d \in FolderItems}
FileA == [name |-> "a.txt", path |-> ZipDir \o <<"a.txt">>]
FileB == [name |-> "b.txt", path |-> ZipDir \o <<"sub", "b.txt">>]
FileLists == {<<>>, <<FileA>>, <<FileB>>}
InitFolderSync ==
    /\ PollerInit({})
    /\ ShIdle
    /\ OtherIdle
    /\ tree = {}
    /\ remote \in RemoteInits
    /\ pass = 1
    /\ firstPass = <<>>
    /\ \E folders \in FolderLists(MaxFolders), files \in FileLists :
        SessionStart(folders, files)
SpecFolderSync == InitFolderSync /\ [][RunNext]_vars

\* run() of the resolver, in both forms, on every path and every answer.
InitResolver ==
    /\ PollerInit({}) /\ UploadIdle /\ SyncIdle /\ ShIdle /\ SignerIdle
    /\ PathIdle /\ StatusIdle
    /\ ResolverInit(Forms)
SpecResolver == InitResolver /\ [][ResolverNext]_vars

\* run() of the token action, in both forms, on every bundle and password.
InitSigner ==
    /\ PollerInit({}) /\ UploadIdle /\ SyncIdle /\ ShIdle /\ ResolverIdle
    /\ PathIdle /\ StatusIdle
    /\ SignerInit
SpecSigner == InitSigner /\ [][SignerNext]_vars

\* The per-path action as GitHub runs it: run() called once.
InitPreviewPaths ==
    /\ PollerInit({}) /\ UploadIdle /\ SyncIdle /\ ShIdle
    /\ ResolverIdle /\ SignerIdle /\ StatusIdle
    /\ PathInit
SpecPreviewPaths == InitPreviewPaths /\ [][PathNext]_vars
\* The same with its scheduling: an awaited fetch settles and run() goes on.
SpecPreviewPathsFair == SpecPreviewPaths /\ WF_vars(PathNext)

\* The status action as a workflow step runs it: run() called once.
InitStatus ==
    /\ PollerInit({}) /\ UploadIdle /\ SyncIdle /\ ShIdle
    /\ ResolverIdle /\ SignerIdle /\ PathIdle
    /\ StatusInit
SpecStatus == InitStatus /\ [][StatusNext]_vars

\* run() of the node action on every tree, against every drive, twice over.
InitRun == PollerInit({}) /\ InitUploadRun /\ ShIdle /\ OtherIdle
SpecUploadRun == InitRun /\ [][RunNext]_vars

\* ================================ claims ==================================

\* The poll call of s that completed in this step reported "stopped".
StoppedHandled(s) == inflight'[s] < inflight[s] /\ lastPoll'[s] = "stopped"

\* C1: once a poll response reports "stopped", the repeating timer is
\* cancelled in that same step, the promise run() awaits is resolved in that
\* same step (run() returns), and no status request is started afterwards.
C1_StoppedCancelsAndResolves ==
    [][\A s \in Sessions :
        /\ StoppedHandled(s) =>
            /\ s \notin timers'
            /\ (pc[s] = "awaiting") =>
                    (promise'[s] = "resolved" /\ pc'[s] = "returned")
        /\ (stoppedResp[s] # <<>>) => (inflight'[s] <= inflight[s])]_vars

\* C1 witness: stopped was reported while another GET of the job was still
\* awaiting its response; the promise is resolved and the timer is gone.
C1_Witness ==
    /\ stoppedResp[1] # <<>>
    /\ promise[1] = "resolved"
    /\ inflight[1] > 0
    /\ 1 \notin timers

\* C2 (as claimed): only consecutive poll failures count, so whenever the
\* poller aborts, the failures that made it abort were consecutive: at least
\* the failure limit of them in a row.
C2_OnlyConsecutiveFailuresAbort ==
    \A s \in Sessions :
        promise[s] = "rejected" => abortConsec[s][1] >= JobStatusFailureLimit

\* C3 (as claimed): the poller aborts exactly at the 6th consecutive failed
\* poll call: it is no longer pending once 6 in a row have failed, and when it
\* aborted, exactly 6 in a row had failed.
C3_AbortAtSixthConsecutiveFailure ==
    \A s \in Sessions :
        /\ promise[s] = "pending" => consec[s] < JobStatusFailureLimit
        /\ promise[s] = "rejected" => abortConsec[s] = <<JobStatusFailureLimit>>

\* C4 (as claimed): polls of one job never overlap: at most one status GET of
\* a job is awaiting its response at any time.
C4_SingleFlight == \A s \in Sessions : inflight[s] <= 1

\* C5: when run() has returned, on whichever path, its timer is not active;
\* and whatever runs after the return (a late poll response cancelling again)
\* leaves the set of active timers as it is.
C5_TimerStoppedOnReturn ==
    /\ [](\A s \in Sessions : pc[s] = "returned" => s \notin timers)
    /\ [][\A s \in Sessions : pc[s] = "returned" => timers' = timers]_vars

\* C5 witness: run() returned through the abort path (its finally cancelled
\* the timer), and a poll that was still awaiting then reported stopped and
\* cancelled the same handle once more.
C5_Witness ==
    /\ pc[1] = "returned"
    /\ promise[1] = "rejected"
    /\ stoppedResp[1] # <<>>
    /\ timers = {}

\* C6: when the job reached stopped, the outputs preview_successes and
\* preview_failures are the processed and failed counters of the response that
\* reported stopped, 0 standing for a counter the response lacks.
C6_OutputsAreFinalCounters ==
    \A s \in Sessions :
        promise[s] = "resolved" =>
            /\ stoppedResp[s] # <<>>
            /\ LET r == stoppedResp[s][1]
               IN  /\ outputs[s].preview_successes =
                        <<IF r.processed = Absent THEN 0 ELSE r.processed>>
                   /\ outputs[s].preview_failures =
                        <<IF r.failed = Absent THEN 0 ELSE r.failed>>
                   /\ ~outputs[s].error_message

\* C6 witness: the stopped response lacked `processed` and carried failed = 1.
C6_Witness ==
    /\ promise[1] = "resolved"
    /\ stoppedResp[1] = <<[processed |-> Absent, failed |-> 1]>>
    /\ outputs[1].preview_failures = <<1>>

\* C7 (as claimed): each call of run() has its own timer and failure count:
\* a call aborts only on failures of its own polls, a call that awaits has its
\* timer running, and a call that returned has left no timer running.
C7_SessionsIsolated ==
    \A s \in Sessions :
        /\ promise[s] = "rejected" => ownFailures[s] >= JobStatusFailureLimit
        /\ pc[s] = "awaiting" => s \in timers
        /\ pc[s] = "returned" => s \notin timers

\* The PUT requests issued for file f, as positions of log.
PutsOf(log, f) == {k \in DOMAIN log : log[k].file = f}

\* C8 (as claimed): a file whose every PUT is answered 429 is attempted 3
\* times, then recorded as failed, and the files after it are still attempted.
C8_ThrottledFileRetriedThrice ==
    \A i \in DOMAIN sourceFiles :
        LET f == sourceFiles[i]
        IN  (i < idx /\ \A k \in PutsOf(putLog, f) : putLog[k].status = 429) =>
                /\ Cardinality(PutsOf(putLog, f)) = ShRetryLimit
                /\ \E j \in DOMAIN uploadReport.failedList :
                        uploadReport.failedList[j] = f

\* C9 (as claimed): a file whose PUT is answered with a 4xx/5xx status other
\* than 429 is recorded as failed after exactly one PUT and no backoff sleep.
C9_OtherErrorFailsAtOnce ==
    \A i \in DOMAIN shFiles :
        LET f == shFiles[i]
        IN  (i < shIdx /\ \E k \in PutsOf(shPutLog, f) :
                            shPutLog[k].status >= 400 /\ shPutLog[k].status # 429) =>
                /\ Cardinality(PutsOf(shPutLog, f)) = 1
                /\ \E j \in DOMAIN shReport.failedFiles : shReport.failedFiles[j] = f
                /\ shBackoffs = 0

\* C10: uploadFiles attempts the files of its input in input order, each
\* exactly once, whatever the earlier files came to; no failure leaves the loop.
C10_EveryFileAttemptedOnceInOrder ==
    /\ upc \in {"upload", "sleep", "done"}
    /\ Len(putLog) = (IF upc = "upload" THEN idx - 1
                      ELSE IF upc = "sleep" THEN idx ELSE Len(sourceFiles))
    /\ \A k \in DOMAIN putLog : putLog[k].file = sourceFiles[k]

\* C10 witness: the loop ended after three files, the first refused by the
\* network, the second answered 500, and the third still uploaded.
C10_Witness ==
    /\ upc = "done"
    /\ Len(sourceFiles) = 3
    /\ putLog[1].status = NetworkError
    /\ putLog[2].status = 500
    /\ putLog[3].status = 200
    /\ uploadReport.uploads = 1

\* The PUT of this log entry did not yield an uploaded item.
PutFailed(e) == ~(ResOk(e.status) /\ e.body = "object")
FilesOf(log) == [i \in 1 .. Len(log) |-> log[i].file]

\* C11: after each processed file uploads + failures is the number of files
\* processed, failedList has `failures` entries, which are the failed files in
\* processing order; a successful file changes only uploads, a failed one only
\* failures and failedList; no upload changes failedFolderCreations.
C11_ReportAccounting ==
    /\ [](/\ uploadReport.uploads + uploadReport.failures = Len(putLog)
          /\ Len(uploadReport.failedList) = uploadReport.failures
          /\ uploadReport.failedList = FilesOf(SelectSeq(putLog, PutFailed))
          /\ uploadReport.failedFolderCreations = 0)
    /\ [][putLog' # putLog =>
            LET e == putLog'[Len(putLog')]
            IN  uploadReport' =
                    IF PutFailed(e)
                    THEN [uploadReport EXCEPT !.failures = @ + 1,
                                              !.failedList = Append(@, e.file)]
                    ELSE [uploadReport EXCEPT !.uploads = @ + 1]]_vars

\* Three files, the first and the last of them failed.
C11_Witness ==
    /\ upc = "done"
    /\ Len(sourceFiles) = 3
    /\ uploadReport.uploads = 1
    /\ uploadReport.failures = 2
    /\ uploadReport.failedList = <<sourceFiles[1], sourceFiles[3]>>
    /\ putLog[1].status = 429
    /\ putLog[2].body = "object"

\* C12: every file attempt, successful or failed, is followed by one throttle
\* sleep before the next file starts: N files make N sleeps, and a PUT starts
\* only when every earlier PUT has had its sleep.
C12_SleepAfterEveryAttempt ==
    /\ [](/\ sleeps = idx - 1
          /\ Len(putLog) - sleeps \in {0, 1}
          /\ upc = "sleep" <=> Len(putLog) = sleeps + 1
          /\ upc = "done" => sleeps = Len(sourceFiles) /\ Len(putLog) = sleeps)
    /\ [][putLog' # putLog => sleeps = Len(putLog) /\ sleeps' = sleeps]_vars

\* Three files, one of them failed, three sleeps.
C12_Witness ==
    /\ upc = "done"
    /\ Len(sourceFiles) = 3
    /\ sleeps = 3
    /\ uploadReport.failures = 1
    /\ putLog[2].status = 503

TreeFiles == {n \in tree : n.kind = "file"}
TreeDirs == {n \in tree : n.kind = "dir"}
IsProperPrefix(q, r) == Len(q) < Len(r) /\ SubSeq(r, 1, Len(q)) = q
PathsOf(items) == {items[i].path : i \in 1 .. Len(items)}

\* C13: a local tree with files at the root and in subdirectories, uploaded to
\* an empty remote root with every remote call succeeding, has each
\* subdirectory created exactly once and every file uploaded, and the report
\* says uploads = number of files of the tree, failures = 0.
C13_WholeTreeUploaded ==
    (/\ upc = "returned" /\ pass = 1
     /\ \E n \in TreeFiles : DirOf(n.path) = ZipDir
     /\ \E n \in TreeFiles : DirOf(n.path) # ZipDir
     /\ \A i \in 1 .. Len(postLog) : postLog[i].status = 201
     /\ Cardinality(remote) = Len(postLog)
     /\ \A i \in 1 .. Len(putLog) : ~PutFailed(putLog[i]))
    => /\ uploadReport.uploads = Cardinality(TreeFiles)
       /\ uploadReport.failures = 0
       /\ PathsOf(FilesOf(putLog)) = {n.path : n \in TreeFiles}
       /\ \A d \in TreeDirs :
            Cardinality({i \in 1 .. Len(postLog) :
                ReplaceZipDir(d.path) = <<"">> \o postLog[i].path}) = 1

\* C14: getSourceStructure returns every regular file at any depth exactly
\* once in files, and every directory at any depth exactly once in folders,
\* each directory before its descendants.
C14_EnumerationComplete ==
    LET s == GetSourceStructure(tree, ZipDir, <<>>)
    IN  /\ PathsOf(s.files) = {n.path : n \in TreeFiles}
        /\ Len(s.files) = Cardinality(TreeFiles)
        /\ PathsOf(s.folders) = {n.path : n \in TreeDirs}
        /\ Len(s.folders) = Cardinality(TreeDirs)
        /\ \A i, j \in 1 .. Len(s.folders) :
            IsProperPrefix(s.folders[i].path, s.folders[j].path) => i < j

\* The folderMap key of the directory a file item lies in.
ParentKey(item) ==
    LET rel == SubSeq(item.path, Len(ZipDir) + 1, Len(item.path) - 1)
    IN  IF rel = <<>> THEN <<"">> ELSE rel

\* C15: the PUT of a file addresses the folder id the folderMap holds for the
\* directory the file lies in, with the file's own name: a file of sub/ goes
\* under the id recorded for sub, a root-level file under the root folder id.
C15_PutUnderParentFolder ==
    \A i \in 1 .. Len(putLog) :
        LET item == putLog[i].file
        IN  ParentKey(item) \in DOMAIN folderMap =>
                /\ putLog[i].folder = folderMap[ParentKey(item)]
                /\ PutPath(item) = <<item.name>>

\* C16: in one session at most one create-child POST is issued for every
\* folder path, a prefix shared by several input directories included; a later
\* occurrence reuses the id the folderMap holds, as parent of what lies deeper.
C16_OnePostPerPath ==
    \A i \in 1 .. Len(postLog) :
        /\ \A j \in 1 .. Len(postLog) : postLog[i].path = postLog[j].path => i = j
        /\ postLog[i].parent =
            IF Len(postLog[i].path) = 1 THEN RootFolderId
            ELSE folderMap[DirOf(postLog[i].path)]

\* sub is made as the prefix of sub/deep and is an input of its own after it:
\* two POSTs.
C16_Witness ==
    /\ Len(sourceFolders) = 2
    /\ sourceFolders[1].path = <<"", "sub", "deep">>
    /\ sourceFolders[2].path = <<"", "sub">>
    /\ fIdx > Len(sourceFolders)
    /\ remote = {RemoteSub, RemoteDeep}
    /\ Len(postLog) = 2
    /\ postLog[1].path = <<"sub">> /\ postLog[1].status = 201
    /\ postLog[2].path = <<"sub", "deep">>

\* The ids the drive holds for that name in that parent.
ExistingIds(parent, name) == {r.id : r \in RemoteChildren(parent, name)}

\* C17: after a 409 whose name-filtered lookup returned exactly one item, the
\* folderMap holds that item's id for the path, deeper segments are created
\* under it, failedFolderCreations is not incremented, and the session goes
\* on to upload the files of that folder.
C17_ConflictResolvedAndUploaded ==
    \A i \in 1 .. Len(postLog) :
        (postLog[i].status = 409 /\ postLog[i].lookup = "one") =>
            /\ postLog[i].path \in DOMAIN folderMap
            /\ folderMap[postLog[i].path]
                    \in ExistingIds(postLog[i].parent, postLog[i].name)
            /\ \A j \in 1 .. Len(postLog) :
                    (Len(postLog[j].path) > 1 /\ DirOf(postLog[j].path) = postLog[i].path)
                        => postLog[j].parent = folderMap[postLog[i].path]
            /\ (\A j \in 1 .. Len(postLog) : postLog[j].status \in {201, 409})
                    => uploadReport.failedFolderCreations = 0
            /\ upc = "returned" =>
                    \A n \in TreeFiles :
                        ReplaceZipDir(DirOf(n.path)) = <<"">> \o postLog[i].path
                            => n.path \in PathsOf(FilesOf(putLog))

\* C18: after a 409 whose lookup returned no item or several, the failure is
\* counted in failedFolderCreations and the session is not aborted.
C18_AmbiguousConflictSkipsSubtree ==
    \A i \in 1 .. Len(postLog) :
        (postLog[i].status = 409 /\ postLog[i].lookup \in {"zero", "many"}) =>
            /\ uploadReport.failedFolderCreations >= 1
            /\ upc # "aborted"

\* C19: a folder-creation POST answered by a non-2xx status other than 409
\* ends the session: it is the last POST, no PUT follows, and the outputs are
\* an error_message and no counts.
C19_CreateFailureAborts ==
    \A i \in 1 .. Len(postLog) :
        (postLog[i].status # NetworkError /\ ~ResOk(postLog[i].status)
         /\ postLog[i].status # 409) =>
            /\ i = Len(postLog)
            /\ putLog = <<>>
            /\ upc = "aborted"
            /\ upOutputs.error_message # <<>>
            /\ upOutputs.upload_successes = <<>>
            /\ upOutputs.upload_failures = <<>>
            /\ upOutputs.upload_failed_list = <<>>

\* The first folder was created, the second was refused: a file is left unsent.
C19_Witness ==
    /\ Len(sourceFolders) = 2
    /\ sourceFiles # <<>>
    /\ Len(postLog) = 2
    /\ postLog[1].status = 201
    /\ postLog[2].status = 500
    /\ upc = "aborted"
    /\ uploadReport.failedFolderCreations = 1

C21_OutputsCarryTheReport ==
    upc = "returned" =>
        /\ upOutputs.upload_successes = <<uploadReport.uploads>>
        /\ upOutputs.upload_failures = <<uploadReport.failures>>

ResolverEnded == rpc \in {"done", "crashed"}
StrategiesOf(log) == [i \in 1 .. Len(log) |-> log[i].strategy]

\* C22: a lookup strategy is attempted only if every earlier one threw or
\* gave no unambiguous folder; once a strategy gives a folder no further
\* lookup is made and that folder is the result of the run.
C22_FirstHitIsTheResult ==
    /\ \A i \in 1 .. Len(rLog) : rLog[i].result = "found" => i = Len(rLog)
    /\ (ResolverEnded /\ rFolder # <<>>) =>
            rOutputs.folder_id = <<rFolder[1].folderId>>

\* The order of section 4.3: direct, segment walk, name search, drive name.
SpecRank(strategy) ==
    CASE strategy = "direct" -> 1
      [] strategy = "walk" -> 2
      [] strategy = "name" -> 3
      [] strategy = "drive" -> 4

\* C23: the strategies are tried in the order direct path lookup, segment
\* walk, name search, drive-name lookup.
C23_SpecOrder ==
    \A i, j \in 1 .. Len(rLog) :
        i < j => SpecRank(rLog[i].strategy) < SpecRank(rLog[j].strategy)

\* The order each form of the action follows.
Chain(form, marker) ==
    IF form = "first"
    THEN IF marker THEN <<"direct", "drive", "name">> ELSE <<"direct", "name">>
    ELSE <<"walk", "direct", "name", "drive">>

\* C23 as amended: sta-sp-drive.js tries the direct lookup, then the
\* drive-name lookup if the path has the /sites/ marker, then the name search;
\* the later form tries the segment walk, the direct lookup, the lookup of
\* the last piece, then the drive-name lookup. The lookups made are always a
\* prefix of that order, and only the last of them can have found a folder.
C23_CodeOrder ==
    /\ Len(rLog) <= Len(Chain(rVariant, HasMarker(rPath)))
    /\ StrategiesOf(rLog) = SubSeq(Chain(rVariant, HasMarker(rPath)), 1, Len(rLog))
    /\ \A i \in 1 .. Len(rLog) : rLog[i].result = "found" => i = Len(rLog)

\* The later form went through all four and reported the failure.
C23_Witness ==
    /\ rVariant = "later"
    /\ StrategiesOf(rLog) = <<"walk", "direct", "name", "drive">>
    /\ rpc = "done"
    /\ rOutputs.error_message # <<>>

FoldersAmong(items) == SelectSeq(items, IsFolderItem)

\* C24: the name search gives a folder only when exactly one folder-type item
\* was found, and then that one; with no item, with no folder among the
\* items, or with several folders it gives none.
C24_NameSearchNeedsOneFolder ==
    \A i \in 1 .. Len(rLog) :
        rLog[i].strategy = "name" =>
            /\ rLog[i].result = "found" <=> Len(FoldersAmong(rLog[i].items)) = 1
            /\ rLog[i].result = "found" =>
                    /\ rFolder # <<>>
                    /\ rFolder[1].folderId = FoldersAmong(rLog[i].items)[1].id
                    /\ rFolder[1].driveId = FoldersAmong(rLog[i].items)[1].driveId

\* A file and a folder were found: the folder is taken.
C24_Witness ==
    /\ rLog # <<>>
    /\ rLog[Len(rLog)].strategy = "name"
    /\ rLog[Len(rLog)].result = "found"
    /\ Len(rLog[Len(rLog)].items) = 2
    /\ ~rLog[Len(rLog)].items[1].folder
    /\ rFolder[1].folderId = 202

\* C25: when the drive search answered with two drives of the requested
\* name, the run ends in an error: no drive_id and no folder_id is output
\* and the failure is reported.
C25_TwoDrivesIsAnError ==
    \A i \in 1 .. Len(rLog) :
        (rLog[i].strategy = "drive" /\ rLog[i].drives = 2 /\ ResolverEnded) =>
            /\ rpc = "done"
            /\ rOutputs.drive_id = <<>>
            /\ rOutputs.folder_id = <<>>
            /\ rOutputs.error_message # <<>>

\* C26: every run ends either with drive_id and folder_id of one match and no
\* error_message, or with an error_message and neither id.
C26_IdsOrError ==
    ResolverEnded =>
        \/ /\ rpc = "done"
           /\ rOutputs.drive_id # <<>> /\ rOutputs.drive_id # <<Undefined>>
           /\ rOutputs.folder_id # <<>> /\ rOutputs.folder_id # <<Undefined>>
           /\ rOutputs.error_message = <<>>
        \/ /\ rpc = "done"
           /\ rOutputs.drive_id = <<>>
           /\ rOutputs.folder_id = <<>>
           /\ rOutputs.error_message # <<>>

SignerEnded == apc \in {"done", "exited"}
GoodBundle ==
    aBundle.wellFormed /\ aBundle.hasKey /\ aBundle.password = aPassword

\* C27: with a valid bundle and its password, and a token endpoint that
\* answers 2xx, the run outputs the access_token of the answer.
C27_ValidBundleYieldsToken ==
    (SignerEnded /\ GoodBundle /\ ResOk(aResponse.status)) =>
        /\ aRequests = 1
        /\ aOutputs.access_token = <<aResponse.access_token>>

\* C28: when the bundle cannot be decoded with the supplied password, or
\* holds no private key, nothing is signed, no request goes to the token
\* endpoint, no access_token is output, and the bundle is not tried again.
C28_BadBundleStopsBeforeNetwork ==
    (SignerEnded /\ ~GoodBundle) =>
        /\ ~aSigned
        /\ aRequests = 0
        /\ aOutputs.access_token = <<>>
        /\ aDecodes = 1
        /\ aWarnings # <<>>

\* forge was given the wrong password for a bundle that holds a key.
C28_Witness ==
    /\ apc = "done"
    /\ aForm = "forge"
    /\ aBundle = [wellFormed |-> TRUE, password |-> "secret", hasKey |-> TRUE]
    /\ aPassword = "wrong"
    /\ aPayload = <<>>
    /\ aRequests = 0
    /\ aWarnings = <<"failed to extract key">>

\* C29: a session with a valid bundle sends exactly one POST and no other; on
\* a non-2xx answer no access_token is output and the failure is surfaced;
\* access_token is output only after a 2xx answer.
C29_OnePostNoRetry ==
    /\ aRequests <= 1
    /\ (SignerEnded /\ GoodBundle) => aRequests = 1
    /\ (SignerEnded /\ aRequests = 1 /\ ~ResOk(aResponse.status)) =>
            aOutputs.access_token = <<>> /\ aWarnings # <<>>
    /\ aOutputs.access_token # <<>> => aRequests = 1 /\ ResOk(aResponse.status)

\* C30: the payload has iss = sub = clientId, aud = the tenant's token
\* endpoint, nbf = now and exp = now + the lifetime the caller asked for.
C30_ExpiresAfterRequestedLifetime ==
    aPayload # <<>> =>
        /\ aPayload[1].iss = ClientId
        /\ aPayload[1].sub = ClientId
        /\ aPayload[1].aud = TokenUrl(TenantId)
        /\ aPayload[1].nbf = NowSeconds(aNowMs)
        /\ aPayload[1].exp = NowSeconds(aNowMs) + aDuration

\* C35: whenever the resolver outputs folder_id it also outputs as drive_id
\* the defined id of the drive that holds the folder, whichever strategy
\* made the match.
C35_FolderIdComesWithDriveId ==
    rOutputs.folder_id # <<>> =>
        /\ rOutputs.drive_id # <<>>
        /\ rOutputs.drive_id # <<Undefined>>
        /\ rOutputs.drive_id = <<rFolder[1].driveId>>

\* C36: when every folder creation and every file upload succeeded, run()
\* sets upload_successes to the number of files and sets no error_message.
C36_NoErrorWhenAllSucceeded ==
    (/\ upc = "returned"
     /\ uploadReport.failures = 0
     /\ uploadReport.failedList = <<>>
     /\ uploadReport.failedFolderCreations = 0) =>
        /\ upOutputs.upload_successes = <<Len(sourceFiles)>>
        /\ upOutputs.error_message = <<>>

\* C31: the temporary files of the key extraction (the written bundle, the
\* extracted key and certificate) are removed on every exit path: none of
\* them exists once the signer has returned or exited.
C31_NoTempFilesLeft ==
    SignerEnded => aFiles = {}

\* C32: run() sets preview_successes and preview_failures only if a poll of
\* the call observed "stopped"; a call whose submission was rejected or whose
\* failure budget ran out has set error_message and neither of them; and a
\* call whose submission failed never issues a status poll.
C32_ReportOrFatalError ==
    \A s \in Sessions :
        /\ (outputs[s].preview_successes # <<>>
                \/ outputs[s].preview_failures # <<>>) =>
              (stoppedResp[s] # <<>> /\ ~outputs[s].error_message)
        /\ (pc[s] = "returned" /\ promise[s] \in {"none", "rejected"}) =>
              /\ outputs[s].error_message
              /\ outputs[s].preview_successes = <<>>
              /\ outputs[s].preview_failures = <<>>
        /\ (pc[s] = "returned" /\ promise[s] = "none") =>
              /\ inflight[s] = 0
              /\ lastPoll[s] = "none"
              /\ s \notin timers

\* C32 witness: the budget ran out after a poll had answered "running" and
\* no poll had answered "stopped": error_message is the only output.
C32_Witness ==
    /\ pc[1] = "returned"
    /\ promise[1] = "rejected"
    /\ stoppedResp[1] = <<>>
    /\ abortConsec[1][1] < ownFailures[1]
    /\ outputs[1].error_message

\* C33: with the timer firing and every status GET settling: a session whose
\* polls all fail from some point on is eventually aborted, and it is aborted
\* no later than the failure that exhausts the budget; a session that is
\* told "stopped" before that is stopped; so a session returns unless
\* the job keeps answering "running"; run() has returned exactly when the
\* session is stopped or aborted; and a stopped or aborted session never
\* changes to the other terminal state.
C33_SessionTerminates ==
    /\ (promise[1] = "pending") ~>
            (promise[1] = "rejected" \/ lastPoll[1] \in {"running", "stopped"})
    /\ (promise[1] = "pending") ~>
            (pc[1] = "returned" \/ lastPoll[1] = "running")
    /\ (stoppedResp[1] # <<>>) ~> (pc[1] = "returned")
    /\ [](promise[1] = "pending" => jobStatusFailures <= JobStatusFailureLimit)
    /\ []((stoppedResp[1] # <<>> /\ abortConsec[1] = <<>>) =>
                promise[1] = "resolved")
    /\ [](promise[1] \in {"resolved", "rejected"} <=>
                (pc[1] = "returned" /\ promise[1] # "none"))
    /\ [][promise[1] \in {"resolved", "rejected"} =>
                promise'[1] = promise[1]]_vars

\* C33 witness: the session was aborted by failures that were not all in a
\* row, and a status GET issued before the abort answered "stopped"
\* afterwards: the session stays aborted.
C33_Witness ==
    /\ promise[1] = "rejected"
    /\ pc[1] = "returned"
    /\ lastPoll[1] = "stopped"
    /\ abortConsec[1][1] < JobStatusFailureLimit

\* The segment walk has been made in this run.
Walked == \E i \in 1 .. Len(rLog) : rLog[i].strategy = "walk"
WalkResult == (CHOOSE i \in 1 .. Len(rLog) : rLog[i].strategy = "walk")

\* C34: the segment walk fails fast. Its requests are for the prefixes of the
\* segments in order of length, each made once and only after the one before
\* it found its segment; a request that does not find its segment is the
\* last one made and the walk then has no result; a walk with a result asked
\* for every segment.
C34_WalkFailsFast ==
    Walked =>
        LET segments == WalkSegments(rPath)
            entry == rLog[WalkResult]
        IN  /\ Len(rWalk) <= Len(segments)
            /\ entry.calls = Len(rWalk)
            /\ \A i \in 1 .. Len(rWalk) :
                    /\ rWalk[i].path = SubSeq(segments, 1, i)
                    /\ i < Len(rWalk) => rWalk[i].found
            /\ (\E i \in 1 .. Len(rWalk) : ~rWalk[i].found) =>
                    entry.result = "none"
            /\ entry.result = "found" =>
                    /\ Len(rWalk) = Len(segments)
                    /\ \A i \in 1 .. Len(rWalk) : rWalk[i].found

\* C34 witness: a path of three segments whose second segment was not found:
\* two requests were made and the walk had no result.
C34_Witness ==
    /\ Walked
    /\ Len(WalkSegments(rPath)) >= 3
    /\ Len(rWalk) = 2
    /\ rWalk[1].found /\ ~rWalk[2].found
    /\ rLog[WalkResult].result = "none"

\* The file name of a path (what follows its last "/") and its dots.
FileName(path) == SubSeq(path, LastIndexOf(path, "/") + 1, Len(path))
Dots(name) == Cardinality({i \in 1 .. Len(name) : name[i] = "."})
HasExtension(path) == Dots(FileName(path)) > 0

\* C37 (as claimed): a 415 answer for a path whose file name has an extension
\* makes operateOnPath retry with removeExtension(path), the path it
\* announces; for a file name without an extension it does not retry and
\* returns false.
C37_RetriesWithFinalExtensionRemoved ==
    \A k \in 1 .. Len(oLog) :
        LET e == oLog[k]
        IN  (~e.threw /\ e.status = UnsupportedMedia) =>
                IF HasExtension(e.path)
                THEN /\ e.retried = <<RemoveExtension(e.path)>>
                     /\ e.announced = e.retried
                ELSE /\ e.retried = <<>>
                     /\ e.returned = <<FALSE>>

\* The POSTs sent for input i, and the failed inputs in their order.
RequestsFor(i) ==
    Cardinality({k \in 1 .. Len(oRequests) : oRequests[k].input = i})
RECURSIVE FailedOf(_, _)
FailedOf(paths, results) ==
    IF paths = <<>> \/ results = <<>> THEN <<>>
    ELSE (IF results[1] THEN <<>> ELSE <<paths[1]>>)
            \o FailedOf(Tail(paths), Tail(results))

\* C38: run() ends whatever the server answers; the POSTs sent for one input
\* path are at most one plus the dots of its file name; while the loop runs
\* each path before the current one has been counted once; and when the
\* outputs are set every path was requested and counted exactly once:
\* successes + failures is the number of paths and failureList is the
\* failed paths in their order.
C38_TerminatesAndCountsOnce ==
    /\ <>(oPc \in {"returned", "threw"})
    /\ [](\A i \in 1 .. Len(oPaths) :
            RequestsFor(i) <= 1 + Dots(FileName(oPaths[i])))
    /\ [](oPc \in {"loop", "await"} =>
            /\ Len(oResults) = oIdx - 1
            /\ oReport.successes + oReport.failures = oIdx - 1
            /\ oReport.failureList = FailedOf(oPaths, oResults))
    /\ []((oPc = "returned" /\ oOutputs.successes # <<>>) =>
            /\ Len(oResults) = Len(oPaths)
            /\ \A i \in 1 .. Len(oPaths) : RequestsFor(i) >= 1
            /\ oReport.successes + oReport.failures = Len(oPaths)
            /\ oReport.failureList = FailedOf(oPaths, oResults)
            /\ oOutputs.successes = <<oReport.successes>>
            /\ oOutputs.failures = <<oReport.failures>>)

\* C38 witness: two paths, /a.b.c first, every POST answered 415: /a.b.c and
\* /a were requested for the first path, both paths failed and are listed.
C38_Witness ==
    /\ oPc = "returned"
    /\ Len(oPaths) = 2
    /\ oPaths[1] = <<"/", "a", ".", "b", ".", "c">>
    /\ RequestsFor(1) = 2
    /\ \A k \in 1 .. Len(oLog) : ~oLog[k].threw /\ oLog[k].status = UnsupportedMedia
    /\ oReport.failureList = oPaths

StatusEnded == sPc \in {"returned", "exited"}

\* C39 (as claimed): a call of the status action with status_type error ends
\* with process.exit(1), whether its status call succeeded, was answered with
\* a failure, threw, or was never sent; a call with status_type ok or progress
\* never exits the process.
C39_ErrorAlwaysExits ==
    StatusEnded =>
        /\ sInputs.statusType = "error" => (sPc = "exited" /\ sExit = <<1>>)
        /\ sInputs.statusType \in {"ok", "progress"} =>
                (sPc = "returned" /\ sExit = <<>>)

====
